---------------------------- MODULE Spec2Model ----------------------------
(***************************************************************************)
(* Model of GraphIngestionService                                          *)
(* (graph_rag/api/docs_ingestion/services.py): the ingestion of triples    *)
(* into the property graph and of blocks into the relational table, the    *)
(* predicate search, the cascading document deletion and the relationship  *)
(* type sanitizer.                                                         *)
(*                                                                         *)
(* Strings that the code inspects character by character (predicates) are  *)
(* sequences of one-character strings; every other string is an atom.      *)
(***************************************************************************)
EXTENDS Integers, Sequences, FiniteSets, TLC

VARIABLES
    graph,      \* the Neo4j store: Document/Entity nodes, typed and CONTAINS edges
    blocksTbl,  \* the PostgreSQL table document_blocks: a set of rows
    calls,      \* number of service calls started so far; the stores' clock
    uuids,      \* number of document ids generated by uuid.uuid4() so far
    last,       \* the last completed call: its operation and its arguments
    rep,        \* TRUE when the last call was an ingest of the request of the call before it
    resp,       \* what the last completed call returned
    hist,       \* what the completed calls asserted and no deletion has withdrawn
    procs,      \* the calls in flight (interleaved specification): their position and locals
    normArg,    \* sanitizer specification: the predicate string under test
    normOut,    \* sanitizer specification: its sanitized form
    normOut2,   \* sanitizer specification: the sanitized form sanitized again
    normStage   \* sanitizer specification: how many times the sanitizer has run

vars == <<graph, blocksTbl, calls, uuids, last, rep, resp, hist, procs,
          normArg, normOut, normOut2, normStage>>

None == "None"

-----------------------------------------------------------------------------
(***************************************************************************)
(* Characters and the str methods the sanitizer uses.                      *)
(***************************************************************************)

(***************************************************************************)
(* The characters, one of each kind str.upper() and str.isalnum() tell     *)
(* apart.  Three stand for characters outside ASCII:                       *)
(*   "j-caron"  U+01F0, a letter whose upper case is "J" followed by the   *)
(*              combining caron U+030C;                                    *)
(*   "caron"    U+030C, a combining mark: not alphanumeric;                *)
(*   "ypo"      U+0345, a combining mark (not alphanumeric) whose upper    *)
(*              case is the letter U+0399, written "I" here.               *)
(***************************************************************************)
LowerLetters == {"a", "b", "j-caron"}
UpperLetters == {"A", "B", "D", "E", "I", "J", "L", "O", "R", "T"}
Digits == {"1"}

\* str.upper(), one character: a string of one or two characters
UpperChar(c) ==
    CASE c = "a" -> <<"A">>
      [] c = "b" -> <<"B">>
      [] c = "j-caron" -> <<"J", "caron">>
      [] c = "ypo" -> <<"I">>
      [] OTHER -> <<c>>

\* str.upper()
RECURSIVE Upper(_)
Upper(s) == IF s = <<>> THEN <<>> ELSE UpperChar(Head(s)) \o Upper(Tail(s))

\* str.isalnum(), one character
IsAlnum(c) == c \in LowerLetters \cup UpperLetters \cup Digits

\* str.replace(" ", "_"): the space character only
ReplaceSpace(s) == [i \in 1..Len(s) |-> IF s[i] = " " THEN "_" ELSE s[i]]

\* "".join(c if c.isalnum() or c == "_" else "_" for c in sanitized)
ReplaceSpecial(s) ==
    [i \in 1..Len(s) |-> IF IsAlnum(s[i]) \/ s[i] = "_" THEN s[i] ELSE "_"]

\* "__" in sanitized
HasDoubleUnderscore(s) ==
    \E i \in 1..(Len(s) - 1) : s[i] = "_" /\ s[i + 1] = "_"

\* sanitized.replace("__", "_"): one left-to-right pass over non-overlapping matches
RECURSIVE ReplaceDoubleOnce(_)
ReplaceDoubleOnce(s) ==
    IF Len(s) < 2 THEN s
    ELSE IF s[1] = "_" /\ s[2] = "_"
         THEN <<"_">> \o ReplaceDoubleOnce(SubSeq(s, 3, Len(s)))
         ELSE <<s[1]>> \o ReplaceDoubleOnce(Tail(s))

\* while "__" in sanitized: sanitized = sanitized.replace("__", "_")
RECURSIVE CollapseUnderscores(_)
CollapseUnderscores(s) ==
    IF HasDoubleUnderscore(s) THEN CollapseUnderscores(ReplaceDoubleOnce(s)) ELSE s

\* sanitized.strip("_")
RECURSIVE LStrip(_)
LStrip(s) == IF s # <<>> /\ s[1] = "_" THEN LStrip(Tail(s)) ELSE s

RECURSIVE RStrip(_)
RStrip(s) ==
    IF s # <<>> /\ s[Len(s)] = "_" THEN RStrip(SubSeq(s, 1, Len(s) - 1)) ELSE s

Strip(s) == RStrip(LStrip(s))

RELATED_TO == <<"R", "E", "L", "A", "T", "E", "D", "_", "T", "O">>

\* return sanitized or "RELATED_TO"
OrRelatedTo(s) == IF s = <<>> THEN RELATED_TO ELSE s

\* A sanitizer that forgets the fallback token.
SanitizeNoFallback(predicate) ==
    Strip(CollapseUnderscores(ReplaceSpecial(ReplaceSpace(Upper(predicate)))))

\* GraphIngestionService._sanitize_relationship_type
SanitizeRelationshipType(predicate) ==
    OrRelatedTo(Strip(CollapseUnderscores(ReplaceSpecial(ReplaceSpace(Upper(predicate))))))

-----------------------------------------------------------------------------
(***************************************************************************)
(* The graph store.  A node carries a store identity (nid), an edge one    *)
(* too (eid): nothing but the statements below keeps two nodes from        *)
(* sharing a name or two edges from sharing their endpoints and type.      *)
(***************************************************************************)

\* A property that was never set (d.updated_at before the first ON MATCH).
NoTime == 0

EmptyGraph == [docs |-> {}, ents |-> {}, rels |-> {}, cnts |-> {}]

NodeIds(g) == {n.nid : n \in g.docs} \cup {n.nid : n \in g.ents}
EdgeIds(g) == {e.eid : e \in g.rels} \cup {e.eid : e \in g.cnts}

\* The identity the store gives a new node or edge: one no live element has.
FreshId(used) ==
    CHOOSE i \in 1..(Cardinality(used) + 1) :
        i \notin used /\ \A j \in 1..(i - 1) : j \in used

\* json.dumps(metadata or {})
JsonDumps(metadata) == IF metadata = None THEN "{}" ELSE metadata

DocsWithId(g, id) == {d \in g.docs : d.id = id}
EntitiesNamed(g, name) == {e \in g.ents : e.name = name}

\* MERGE (d:Document {id: $id}) ON CREATE SET d.created_at, d.metadata
\*                              ON MATCH SET d.updated_at
\* The Document MERGE given the nodes its match phase read: ON CREATE when it
\* read none, ON MATCH on those it read (and that still exist).
MergeDocumentGiven(g, id, metadata, now, matched) ==
    IF matched = {}
    THEN [g EXCEPT !.docs = @ \cup {[nid |-> FreshId(NodeIds(g)), id |-> id,
                                     created_at |-> now, updated_at |-> NoTime,
                                     metadata |-> JsonDumps(metadata)]}]
    ELSE [g EXCEPT !.docs = (@ \ matched)
                            \cup {[d EXCEPT !.updated_at = now] : d \in matched \cap @}]

\* A Document MERGE whose ON MATCH also sets d.metadata.
MergeDocumentOverwrite(g, id, metadata, now) ==
    LET matched == DocsWithId(g, id) IN
    IF matched = {}
    THEN MergeDocumentGiven(g, id, metadata, now, {})
    ELSE [g EXCEPT !.docs = (@ \ matched)
                            \cup {[d EXCEPT !.updated_at = now,
                                            !.metadata = JsonDumps(metadata)] :
                                     d \in matched}]

\* A Document MERGE that never matches: a plain CREATE.
CreateDocument(g, id, metadata, now) ==
    MergeDocumentGiven(g, id, metadata, now, {})

MergeDocument(g, id, metadata, now) ==
    MergeDocumentGiven(g, id, metadata, now, DocsWithId(g, id))

\* An entity MERGE that never matches: a plain CREATE.
CreateEntity(g, name, now) ==
    [g EXCEPT !.ents = @ \cup {[nid |-> FreshId(NodeIds(g)), name |-> name,
                                type |-> "Generic", created_at |-> now]}]

\* The Entity MERGE given the nodes its match phase read: it creates the node
\* when it read none and sets nothing otherwise.
MergeEntityGiven(g, name, now, matched) ==
    IF matched = {}
    THEN [g EXCEPT !.ents = @ \cup {[nid |-> FreshId(NodeIds(g)), name |-> name,
                                     type |-> "Generic", created_at |-> now]}]
    ELSE g

\* MERGE (s:Entity {name: $subject}) ON CREATE SET s.id, s.created_at, s.type
MergeEntity(g, name, now) == MergeEntityGiven(g, name, now, EntitiesNamed(g, name))

RelsBetween(g, s, o, relType) ==
    {r \in g.rels : r.src = s.nid /\ r.dst = o.nid /\ r.type = relType}

\* A relationship MERGE that never matches: a plain CREATE.
CreateRelationship(g, subject, object, relType, predicate, source, document_id, now) ==
    LET pairs == EntitiesNamed(g, subject) \X EntitiesNamed(g, object) IN
    [g   |-> [g EXCEPT !.rels = @ \cup
                {[eid |-> FreshId(EdgeIds(g)), src |-> p[1].nid, dst |-> p[2].nid,
                  type |-> relType, predicate |-> predicate, source |-> source,
                  document_id |-> document_id, created_at |-> now] : p \in pairs}],
     rows |-> Cardinality(pairs)]

\* MATCH (s:Entity {name: $subject}) MATCH (o:Entity {name: $object})
\* MERGE (s)-[r:rel_type]->(o)
\* ON CREATE SET r.created_at, r.predicate, r.source, r.document_id  RETURN r
\* rows: the number of records the statement returns.
MergeRelationship(g, subject, object, relType, predicate, source, document_id, now) ==
    LET pairs == EntitiesNamed(g, subject) \X EntitiesNamed(g, object)
        hit == UNION {RelsBetween(g, p[1], p[2], relType) : p \in pairs}
        missing == {p \in pairs : RelsBetween(g, p[1], p[2], relType) = {}}
    IN
    [g   |-> [g EXCEPT !.rels = @ \cup
                {[eid |-> FreshId(EdgeIds(g)), src |-> p[1].nid, dst |-> p[2].nid,
                  type |-> relType, predicate |-> predicate, source |-> source,
                  document_id |-> document_id, created_at |-> now] : p \in missing}],
     rows |-> Cardinality(hit) + Cardinality(missing)]

\* A containment MERGE that never matches: a plain CREATE.
CreateContains(g, document_id, name, now) ==
    LET pairs == DocsWithId(g, document_id) \X EntitiesNamed(g, name) IN
    [g EXCEPT !.cnts = @ \cup
        {[eid |-> FreshId(EdgeIds(g)), doc |-> p[1].nid, ent |-> p[2].nid,
          created_at |-> now] : p \in pairs}]

\* MATCH (d:Document {id: $document_id}) MATCH (s:Entity {name: $subject})
\* MERGE (d)-[r:CONTAINS]->(s) ON CREATE SET r.created_at
MergeContains(g, document_id, name, now) ==
    LET pairs == DocsWithId(g, document_id) \X EntitiesNamed(g, name)
        missing == {p \in pairs :
                       ~ \E c \in g.cnts : c.doc = p[1].nid /\ c.ent = p[2].nid}
    IN
    [g EXCEPT !.cnts = @ \cup
        {[eid |-> FreshId(EdgeIds(g)), doc |-> p[1].nid, ent |-> p[2].nid,
          created_at |-> now] : p \in missing}]

\* (d)-[:CONTAINS]->(e)
Contains(g, d, e) == \E c \in g.cnts : c.doc = d.nid /\ c.ent = e.nid

\* Removal of a set of nodes with every edge attached to them (DETACH DELETE).
DetachDelete(g, dead) ==
    [docs |-> {d \in g.docs : d.nid \notin dead},
     ents |-> {e \in g.ents : e.nid \notin dead},
     rels |-> {r \in g.rels : r.src \notin dead /\ r.dst \notin dead},
     cnts |-> {c \in g.cnts : c.doc \notin dead /\ c.ent \notin dead}]

\* A cascade without the existence check: every contained entity goes.
DeleteCascadeNoCheck(g, document_id) ==
    LET ds == DocsWithId(g, document_id)
        es == {e \in g.ents : \E d \in ds : Contains(g, d, e)}
    IN DetachDelete(g, {d.nid : d \in ds} \cup {e.nid : e \in es})

\* A cascade that deletes the nodes but not the edges attached to them.
DeleteCascadeNoDetach(g, document_id) ==
    LET ds == DocsWithId(g, document_id)
        es == {e \in g.ents :
                  /\ \E d \in ds : Contains(g, d, e)
                  /\ ~ \E other \in g.docs :
                         other.id # document_id /\ Contains(g, other, e)}
    IN [g EXCEPT !.docs = @ \ ds, !.ents = @ \ es]

\* MATCH (d:Document {id: $document_id})
\* OPTIONAL MATCH (d)-[:CONTAINS]->(e:Entity)
\* WHERE NOT EXISTS { MATCH (other:Document)-[:CONTAINS]->(e)
\*                    WHERE other.id <> $document_id }
\* DETACH DELETE d, e
DeleteDocumentCascade(g, document_id) ==
    LET ds == DocsWithId(g, document_id)
        es == {e \in g.ents :
                  /\ \E d \in ds : Contains(g, d, e)
                  /\ ~ \E other \in g.docs :
                         other.id # document_id /\ Contains(g, other, e)}
    IN DetachDelete(g, {d.nid : d \in ds} \cup {e.nid : e \in es})

-----------------------------------------------------------------------------
(***************************************************************************)
(* The relational store: table document_blocks.                            *)
(***************************************************************************)

RowsWithId(tbl, id) == {r \in tbl : r.id = id}

\* An upsert that replaces the whole row, created_at included.
ReplaceBlock(tbl, block, document_id, now) ==
    {r \in tbl : r.id # block.id}
    \cup {[id |-> block.id, document_id |-> document_id,
           raw_text |-> block.raw_text, terms |-> block.terms,
           metadata |-> JsonDumps(block.metadata),
           created_at |-> now, updated_at |-> now]}

\* INSERT INTO document_blocks (id, document_id, raw_text, terms, metadata)
\* VALUES (...) ON CONFLICT (id) DO UPDATE SET raw_text, terms, metadata,
\* updated_at = NOW(); created_at and updated_at DEFAULT NOW() on insert.
UpsertBlock(tbl, block, document_id, now) ==
    LET hit == RowsWithId(tbl, block.id) IN
    IF hit = {}
    THEN tbl \cup {[id |-> block.id, document_id |-> document_id,
                    raw_text |-> block.raw_text, terms |-> block.terms,
                    metadata |-> JsonDumps(block.metadata),
                    created_at |-> now, updated_at |-> now]}
    ELSE (tbl \ hit)
         \cup {[r EXCEPT !.raw_text = block.raw_text, !.terms = block.terms,
                         !.metadata = JsonDumps(block.metadata),
                         !.updated_at = now] : r \in hit}

\* A DELETE without its WHERE clause.
DeleteAllBlocks(tbl, document_id) == {}

\* DELETE FROM document_blocks WHERE document_id = $1
DeleteBlocks(tbl, document_id) == {r \in tbl : r.document_id # document_id}

-----------------------------------------------------------------------------
(***************************************************************************)
(* The service methods, as functions of the stores they act on.            *)
(***************************************************************************)

\* The statements of one triple, in the order of the loop body; a statement
\* that raises ends the iteration (except Exception: log and continue).
NoFailure == 0
SubjectMerge == 1
ObjectMerge == 2
RelationshipMerge == 3
SubjectContains == 4
ObjectContains == 5

\* GraphIngestionService._store_blocks: the loop over the blocks; `bad` holds
\* the positions of the blocks whose INSERT raises (caught, logged, skipped).
\* A block loop without the try/except: the first INSERT that raises ends it.
RECURSIVE StoreBlocksAbort(_, _, _, _, _, _)
StoreBlocksAbort(tbl, blocks, i, document_id, now, bad) ==
    IF i > Len(blocks) \/ i \in bad THEN [tbl |-> tbl, blocks_stored |-> 0]
    ELSE LET rest == StoreBlocksAbort(UpsertBlock(tbl, blocks[i], document_id, now),
                                      blocks, i + 1, document_id, now, bad)
         IN [rest EXCEPT !.blocks_stored = @ + 1]

RECURSIVE StoreBlocksFrom(_, _, _, _, _, _)
StoreBlocksFrom(tbl, blocks, i, document_id, now, bad) ==
    IF i > Len(blocks) THEN [tbl |-> tbl, blocks_stored |-> 0]
    ELSE IF i \in bad
         THEN StoreBlocksFrom(tbl, blocks, i + 1, document_id, now, bad)
         ELSE LET rest == StoreBlocksFrom(UpsertBlock(tbl, blocks[i], document_id, now),
                                          blocks, i + 1, document_id, now, bad)
              IN [rest EXCEPT !.blocks_stored = @ + 1]

StoreBlocks(tbl, blocks, document_id, now, bad) ==
    StoreBlocksFrom(tbl, blocks, 1, document_id, now, bad)

\* One iteration of the loop of _ingest_triples over `triple`, the statement
\* `failAt` raising (NoFailure: none does).  st carries the graph and the two
\* counters.
ProcessTriple(st, triple, document_id, now, failAt) ==
    LET g1 == MergeEntity(st.g, triple.subject, now)
        g2 == MergeEntity(g1, triple.object, now)
        rel_type == SanitizeRelationshipType(triple.predicate)
        m3 == MergeRelationship(g2, triple.subject, triple.object, rel_type,
                                triple.predicate, triple.source, document_id, now)
        \* if result.single(): relationships_created += 1
        rc == IF m3.rows > 0 THEN st.relationships_created + 1
              ELSE st.relationships_created
        g4 == MergeContains(m3.g, document_id, triple.subject, now)
        g5 == MergeContains(g4, document_id, triple.object, now)
    IN CASE failAt = SubjectMerge -> st
         [] failAt = ObjectMerge -> [st EXCEPT !.g = g1]
         [] failAt = RelationshipMerge ->
                [st EXCEPT !.g = g2, !.nodes_created = @ + 2]
         [] failAt = SubjectContains ->
                [g |-> m3.g, nodes_created |-> st.nodes_created + 2,
                 relationships_created |-> rc]
         [] failAt = ObjectContains ->
                [g |-> g4, nodes_created |-> st.nodes_created + 2,
                 relationships_created |-> rc]
         [] OTHER ->
                [g |-> g5, nodes_created |-> st.nodes_created + 2,
                 relationships_created |-> rc]

\* A triple loop whose first failing iteration ends it.
RECURSIVE ProcessTriplesAbort(_, _, _, _, _, _)
ProcessTriplesAbort(st, triples, i, document_id, now, failAt) ==
    IF i > Len(triples) THEN st
    ELSE IF failAt[i] # NoFailure
         THEN ProcessTriple(st, triples[i], document_id, now, failAt[i])
         ELSE ProcessTriplesAbort(ProcessTriple(st, triples[i], document_id, now, failAt[i]),
                                  triples, i + 1, document_id, now, failAt)

\* A triple loop that returns after its first iteration.
ProcessFirstTriple(st, triples, i, document_id, now, failAt) ==
    IF i > Len(triples) THEN st
    ELSE ProcessTriple(st, triples[i], document_id, now, failAt[i])

RECURSIVE ProcessTriplesFrom(_, _, _, _, _, _)
ProcessTriplesFrom(st, triples, i, document_id, now, failAt) ==
    IF i > Len(triples) THEN st
    ELSE ProcessTriplesFrom(ProcessTriple(st, triples[i], document_id, now, failAt[i]),
                            triples, i + 1, document_id, now, failAt)

\* GraphIngestionService._ingest_triples: the Document MERGE, nodes_created += 1,
\* then the loop; failAt[i] is the statement of triple i that raises.
IngestTriples(g, triples, document_id, metadata, now, failAt) ==
    ProcessTriplesFrom([g |-> MergeDocument(g, document_id, metadata, now),
                        nodes_created |-> 1, relationships_created |-> 0],
                       triples, 1, document_id, now, failAt)

\* MATCH (s:Entity)-[r:rel_type]->(o:Entity): the edges the search matches.
EdgesOfType(g, rel_type) == {r \in g.rels : r.type = rel_type}

NameOf(g, nid) == (CHOOSE e \in g.ents : e.nid = nid).name

\* A search record that shows the relationship type in place of r.predicate.
SearchRecordWithType(g, r) ==
    [subject |-> NameOf(g, r.src), predicate |-> r.type,
     object |-> NameOf(g, r.dst), source |-> r.source]

\* RETURN s.name as subject, r.predicate as predicate, o.name as object,
\*        r.source as source
SearchRecord(g, r) ==
    [subject |-> NameOf(g, r.src), predicate |-> r.predicate,
     object |-> NameOf(g, r.dst), source |-> r.source]

\* GraphIngestionService.search_by_predicate: every result the store may give,
\* LIMIT $limit keeping any `limit` of the matched edges.
SearchByPredicateResults(g, predicate, limit) ==
    LET matched == EdgesOfType(g, SanitizeRelationshipType(predicate))
        n == IF Cardinality(matched) < limit THEN Cardinality(matched) ELSE limit
    IN {{SearchRecord(g, r) : r \in kept} :
            kept \in {k \in SUBSET matched : Cardinality(k) = n}}

\* Both stores with the timestamps left out.
View(g, tbl) ==
    [docs |-> {[nid |-> d.nid, id |-> d.id, metadata |-> d.metadata] : d \in g.docs},
     ents |-> {[nid |-> e.nid, name |-> e.name, type |-> e.type] : e \in g.ents},
     rels |-> {[eid |-> r.eid, src |-> r.src, dst |-> r.dst, type |-> r.type,
                predicate |-> r.predicate, source |-> r.source,
                document_id |-> r.document_id] : r \in g.rels},
     cnts |-> {[eid |-> c.eid, doc |-> c.doc, ent |-> c.ent] : c \in g.cnts},
     blocks |-> {[id |-> r.id, document_id |-> r.document_id, raw_text |-> r.raw_text,
                  terms |-> r.terms, metadata |-> r.metadata] : r \in tbl}]

-----------------------------------------------------------------------------
(***************************************************************************)
(* Inputs.                                                                 *)
(***************************************************************************)

\* Calls made in one behaviour.
MaxCalls == 3

DocIds == {"D1", "D2"}

Names == {"Paris", "France", "Europe"}

\* The values uuid.uuid4() yields, in the order it yields them.
UuidPool == <<"U1">>

PredSpaced == <<"a", " ", "b">>
PredUnderscored == <<"a", "_", "b">>
PredOther == <<"b">>

Triple(s, p, o, src) == [subject |-> s, predicate |-> p, object |-> o, source |-> src]

TripleUniverse ==
    {Triple("Paris", PredSpaced, "France", "b1"),
     Triple("Paris", PredUnderscored, "France", "b2"),
     Triple("France", PredSpaced, "Europe", "b1")}

TripleLists ==
    {<<>>} \cup {<<t>> : t \in TripleUniverse}
           \cup {<<t, u>> : t \in TripleUniverse, u \in TripleUniverse}

\* The block each source id names.
BlockOf(id) ==
    IF id = "b1"
    THEN [id |-> "b1", raw_text |-> "x", terms |-> <<"k">>, metadata |-> None]
    ELSE [id |-> id, raw_text |-> "y", terms |-> <<>>, metadata |-> "m"]

\* The blocks a list of triples was extracted from, each once, in order of
\* first mention.
RECURSIVE SourceBlocks(_, _)
SourceBlocks(triples, seen) ==
    IF triples = <<>> THEN <<>>
    ELSE IF Head(triples).source \in seen
         THEN SourceBlocks(Tail(triples), seen)
         ELSE <<BlockOf(Head(triples).source)>>
              \o SourceBlocks(Tail(triples), seen \cup {Head(triples).source})

Metadatas == {None}

\* A request carries its triples and the blocks they cite.
Requests ==
    {[document_id |-> d, metadata |-> m, blocks |-> SourceBlocks(ts, {}),
      triples |-> ts] : d \in DocIds, m \in Metadatas, ts \in TripleLists}

SearchPredicates == {PredUnderscored, PredOther}
SearchLimits == {1, 2}

-----------------------------------------------------------------------------
(***************************************************************************)
(* What the completed calls asserted: the (document, entity name) pairs    *)
(* mentioned, the triples ingested, and for each (subject, type, object)   *)
(* the triple that was ingested first.  A deletion withdraws what the      *)
(* document alone mentioned; withdrawn holds the names the last deleted    *)
(* document mentioned.                                                     *)
(***************************************************************************)

EmptyHist == [mentions |-> {}, ingested |-> {}, creators |-> {}, withdrawn |-> {}]

Bare(t) == [subject |-> t.subject, predicate |-> t.predicate, object |-> t.object]

Keyed(t) ==
    [subject |-> t.subject, predicate |-> t.predicate, object |-> t.object,
     type |-> SanitizeRelationshipType(t.predicate)]

RECURSIVE HistIngestFrom(_, _, _, _)
HistIngestFrom(h, triples, i, document_id) ==
    IF i > Len(triples) THEN h
    ELSE LET t == triples[i]
             k == Keyed(t)
         IN
         HistIngestFrom(
            [mentions |-> h.mentions \cup {<<document_id, t.subject>>,
                                           <<document_id, t.object>>},
             ingested |-> h.ingested \cup {Bare(t)},
             creators |-> IF \E c \in h.creators :
                                 /\ c.subject = k.subject /\ c.object = k.object
                                 /\ c.type = k.type
                          THEN h.creators ELSE h.creators \cup {k},
             withdrawn |-> {}],
            triples, i + 1, document_id)

HistDelete(h, document_id) ==
    LET gone == {m[2] : m \in {x \in h.mentions :
                          /\ x[1] = document_id
                          /\ ~ \E y \in h.mentions : y[1] # document_id /\ y[2] = x[2]}}
        kept(ts) == {t \in ts : t.subject \notin gone /\ t.object \notin gone}
    IN [mentions |-> {m \in h.mentions : m[1] # document_id},
        ingested |-> kept(h.ingested),
        creators |-> kept(h.creators),
        withdrawn |-> {m[2] : m \in {x \in h.mentions : x[1] = document_id}}]

-----------------------------------------------------------------------------
(***************************************************************************)
(* Calls run one at a time, no statement failing.                          *)
(***************************************************************************)

NoFailures(triples) == [i \in 1..Len(triples) |-> NoFailure]

Idle == [i \in {} |-> None]

Init ==
    /\ graph = EmptyGraph
    /\ blocksTbl = {}
    /\ calls = 0
    /\ uuids = 0
    /\ last = [op |-> "none", arg |-> None]
    /\ rep = FALSE
    /\ resp = [op |-> "none"]
    /\ hist = EmptyHist
    /\ procs = Idle
    /\ normArg = <<>>
    /\ normOut = <<>>
    /\ normOut2 = <<>>
    /\ normStage = 0

\* ingest_triples_and_blocks (and its route): blocks first, then the graph.
Ingest(request) ==
    /\ calls < MaxCalls
    /\ request.document_id = None => uuids < Len(UuidPool)
    /\ LET now == calls + 1
           \* document_id = request.document_id or str(uuid.uuid4())
           document_id == IF request.document_id # None THEN request.document_id
                          ELSE UuidPool[uuids + 1]
           sb == StoreBlocks(blocksTbl, request.blocks, document_id, now, {})
           it == IngestTriples(graph, request.triples, document_id,
                               request.metadata, now, NoFailures(request.triples))
       IN /\ blocksTbl' = sb.tbl
          /\ graph' = it.g
          /\ calls' = now
          /\ uuids' = IF request.document_id # None THEN uuids ELSE uuids + 1
          /\ resp' = [op |-> "ingest", document_id |-> document_id,
                      blocks_stored |-> sb.blocks_stored,
                      triples_processed |-> Len(request.triples),
                      nodes_created |-> it.nodes_created,
                      relationships_created |-> it.relationships_created]
          /\ hist' = HistIngestFrom(hist, request.triples, 1, document_id)
    /\ rep' = (last.op = "ingest" /\ last.arg = request)
    /\ last' = [op |-> "ingest", arg |-> request]
    /\ UNCHANGED <<procs, normArg, normOut, normOut2, normStage>>

\* delete_document (and its route): the graph cascade, then the block rows.
Delete(document_id) ==
    /\ calls < MaxCalls
    /\ graph' = DeleteDocumentCascade(graph, document_id)
    /\ blocksTbl' = DeleteBlocks(blocksTbl, document_id)
    /\ calls' = calls + 1
    /\ resp' = [op |-> "delete", ok |-> TRUE]
    /\ hist' = HistDelete(hist, document_id)
    /\ rep' = FALSE
    /\ last' = [op |-> "delete", arg |-> document_id]
    /\ UNCHANGED <<uuids, procs, normArg, normOut, normOut2, normStage>>

\* search_by_predicate (and its route).
Search(predicate, limit) ==
    /\ calls < MaxCalls
    /\ \E records \in SearchByPredicateResults(graph, predicate, limit) :
          resp' = [op |-> "search", records |-> records]
    /\ calls' = calls + 1
    /\ rep' = FALSE
    /\ last' = [op |-> "search", arg |-> [predicate |-> predicate, limit |-> limit]]
    /\ hist' = [hist EXCEPT !.withdrawn = {}]
    /\ UNCHANGED <<graph, blocksTbl, uuids, procs,
                   normArg, normOut, normOut2, normStage>>

Next ==
    \/ \E request \in Requests : Ingest(request)
    \/ \E document_id \in DocIds : Delete(document_id)
    \/ \E predicate \in SearchPredicates, limit \in SearchLimits :
          Search(predicate, limit)

Spec == Init /\ [][Next]_vars

-----------------------------------------------------------------------------
(***************************************************************************)
(* Properties of the calls run one at a time (specification Spec).         *)
(***************************************************************************)

Nids(nodes) == {n.nid : n \in nodes}

\* The step is a completed call of the named operation.
IsCall(op) == calls' # calls /\ last'.op = op

\* C1: ingesting a request that carries a document_id a second time, right
\* after the first and nothing failing, leaves both stores as the first
\* ingestion left them, timestamps aside: the same Document and Entity nodes,
\* relationship edges, containment edges and block rows.
C1_IngestTwiceSameState ==
    [][(rep' /\ last'.arg.document_id # None)
          => View(graph', blocksTbl') = View(graph, blocksTbl)]_vars

C1_Witness ==
    /\ rep
    /\ Len(last.arg.triples) = 2
    /\ last.arg.triples[1] # last.arg.triples[2]
    /\ blocksTbl # {}

\* C2: the response to the second of two identical ingestions reports
\* nodes_created = 0 and relationships_created = 0.
C2_SecondIngestReportsZero ==
    rep => (resp.nodes_created = 0 /\ resp.relationships_created = 0)

\* The containment edges from Document nodes with id d to Entity nodes named n.
ContainmentEdges(g, d, n) ==
    {c \in g.cnts : c.doc \in Nids(DocsWithId(g, d)) /\ c.ent \in Nids(EntitiesNamed(g, n))}

\* C4: a name mentioned by triples ingested under two different documents has
\* exactly one Entity node, with exactly one containment edge from each of the
\* two documents, however often either request was repeated.
C4_SharedEntityOnce ==
    \A n \in Names, d1 \in DocIds, d2 \in DocIds :
        (d1 # d2 /\ <<d1, n>> \in hist.mentions /\ <<d2, n>> \in hist.mentions)
           => /\ Cardinality(EntitiesNamed(graph, n)) = 1
              /\ Cardinality(ContainmentEdges(graph, d1, n)) = 1
              /\ Cardinality(ContainmentEdges(graph, d2, n)) = 1

C4_Witness ==
    /\ rep
    /\ \E n \in Names, d1 \in DocIds, d2 \in DocIds :
          d1 # d2 /\ <<d1, n>> \in hist.mentions /\ <<d2, n>> \in hist.mentions

\* The entities some document other than document_id contains.
SharedBeyond(g, document_id) ==
    {e \in g.ents : \E d \in g.docs : d.id # document_id /\ Contains(g, d, e)}

\* The entities document_id contains and no other document does.
OwnedOnlyBy(g, document_id) ==
    {e \in g.ents :
        /\ \E d \in g.docs : d.id = document_id /\ Contains(g, d, e)
        /\ ~ \E d \in g.docs : d.id # document_id /\ Contains(g, d, e)}

\* C5: a deletion of document D keeps every Entity node that another document
\* contains, that node's containment edges from the other documents, and its
\* relationship edges whose two endpoints both survive.
C5_DeleteKeepsSharedEntities ==
    [][IsCall("delete") =>
          LET shared == SharedBeyond(graph, last'.arg) IN
          /\ shared \subseteq graph'.ents
          /\ \A c \in graph.cnts :
                (c.ent \in Nids(shared) /\ c.doc \notin Nids(DocsWithId(graph, last'.arg)))
                   => c \in graph'.cnts
          /\ \A r \in graph.rels :
                (/\ r.src \in Nids(shared) \/ r.dst \in Nids(shared)
                 /\ r.src \in Nids(graph'.ents) /\ r.dst \in Nids(graph'.ents))
                   => r \in graph'.rels]_vars

\* A deleted document had mentioned an entity that survives with a relationship
\* edge, and one that is gone.
C5_Witness ==
    /\ last.op = "delete"
    /\ \E n \in hist.withdrawn :
          \E e \in EntitiesNamed(graph, n) :
             \E r \in graph.rels : r.src = e.nid \/ r.dst = e.nid
    /\ \E n \in hist.withdrawn : EntitiesNamed(graph, n) = {}

NoDanglingEdge(g) ==
    /\ \A r \in g.rels : r.src \in Nids(g.ents) /\ r.dst \in Nids(g.ents)
    /\ \A c \in g.cnts : c.doc \in Nids(g.docs) /\ c.ent \in Nids(g.ents)

\* C6: after a deletion of document D no Document node D exists, no Entity
\* node remains that D contained and no other document did, and no edge is
\* left with an endpoint that is no node.
C6_DeleteRemovesOwned ==
    [][IsCall("delete") =>
          /\ DocsWithId(graph', last'.arg) = {}
          /\ OwnedOnlyBy(graph, last'.arg) \cap graph'.ents = {}
          /\ NoDanglingEdge(graph')]_vars

\* A deleted document had mentioned an entity that is gone while relationship
\* edges remain.
C6_Witness ==
    /\ last.op = "delete"
    /\ \E n \in hist.withdrawn : EntitiesNamed(graph, n) = {}
    /\ graph.rels # {}

\* C7: no two relationship edges share subject name, relationship type and
\* object name.
C7_OneEdgePerKey ==
    \A r1 \in graph.rels, r2 \in graph.rels :
        (/\ NameOf(graph, r1.src) = NameOf(graph, r2.src)
         /\ NameOf(graph, r1.dst) = NameOf(graph, r2.dst)
         /\ r1.type = r2.type) => r1 = r2

\* Two triples with different predicate strings and the same subject, type and
\* object were ingested, under two documents.
C7_Witness ==
    /\ \E t \in hist.ingested, u \in hist.ingested :
          /\ t.subject = u.subject /\ t.object = u.object
          /\ t.predicate # u.predicate
          /\ SanitizeRelationshipType(t.predicate) = SanitizeRelationshipType(u.predicate)
          /\ <<"D1", t.subject>> \in hist.mentions
          /\ <<"D2", t.subject>> \in hist.mentions
    /\ graph.rels # {}

\* The last call was a search whose limit is at least the number of edges of
\* the type searched for.
SearchedAll ==
    /\ last.op = "search"
    /\ last.arg.limit >= Cardinality(EdgesOfType(graph,
                             SanitizeRelationshipType(last.arg.predicate)))

\* C8 as stated: a search for a predicate that sanitizes to the type of an
\* ingested triple (s, P, o), its limit at least the number of edges of the
\* type, returns a record with subject s, object o and predicate P.
C8_SearchReturnsOwnPredicate ==
    SearchedAll =>
        \A t \in hist.ingested :
            SanitizeRelationshipType(t.predicate)
                    = SanitizeRelationshipType(last.arg.predicate)
               => \E rec \in resp.records :
                     /\ rec.subject = t.subject /\ rec.object = t.object
                     /\ rec.predicate = t.predicate

\* C8, amended: the record's predicate is the string of the triple that was
\* ingested first with that subject, type and object.
C8_SearchReturnsCreatorPredicate ==
    SearchedAll =>
        \A t \in hist.ingested :
            SanitizeRelationshipType(t.predicate)
                    = SanitizeRelationshipType(last.arg.predicate)
               => \E rec \in resp.records, c \in hist.creators :
                     /\ c.subject = t.subject /\ c.object = t.object
                     /\ c.type = SanitizeRelationshipType(t.predicate)
                     /\ rec.subject = t.subject /\ rec.object = t.object
                     /\ rec.predicate = c.predicate

\* A search found a triple that was ingested after another of the same
\* subject, type and object but a different predicate string.
C8_Witness ==
    /\ SearchedAll
    /\ \E t \in hist.ingested, c \in hist.creators :
          /\ c.subject = t.subject /\ c.object = t.object
          /\ c.type = SanitizeRelationshipType(last.arg.predicate)
          /\ c.type = SanitizeRelationshipType(t.predicate)
          /\ c.predicate # t.predicate
          /\ \E rec \in resp.records :
                rec.subject = t.subject /\ rec.object = t.object

-----------------------------------------------------------------------------
(***************************************************************************)
(* The sanitizer on its own (specification SpecNorm): every predicate      *)
(* string of up to MaxPredicateLen characters is sanitized, and the result *)
(* sanitized again.                                                        *)
(***************************************************************************)

MaxPredicateLen == 4

Alphabet == {"a", "B", "1", "_", " ", "\t", "-", "j-caron", "ypo"}

PredicateStrings == UNION {[1..n -> Alphabet] : n \in 0..MaxPredicateLen}

InitNorm ==
    /\ graph = EmptyGraph
    /\ blocksTbl = {}
    /\ calls = 0
    /\ uuids = 0
    /\ last = [op |-> "none", arg |-> None]
    /\ rep = FALSE
    /\ resp = [op |-> "none"]
    /\ hist = EmptyHist
    /\ procs = Idle
    /\ normArg \in PredicateStrings
    /\ normOut = <<>>
    /\ normOut2 = <<>>
    /\ normStage = 0

Sanitize ==
    /\ normStage = 0
    /\ normOut' = SanitizeRelationshipType(normArg)
    /\ normStage' = 1
    /\ UNCHANGED <<graph, blocksTbl, calls, uuids, last, rep, resp, hist, procs,
                   normArg, normOut2>>

SanitizeAgain ==
    /\ normStage = 1
    /\ normOut2' = SanitizeRelationshipType(normOut)
    /\ normStage' = 2
    /\ UNCHANGED <<graph, blocksTbl, calls, uuids, last, rep, resp, hist, procs,
                   normArg, normOut>>

NextNorm == Sanitize \/ SanitizeAgain

SpecNorm == InitNorm /\ [][NextNorm]_vars

NoAlnum(s) == \A i \in 1..Len(s) : ~ IsAlnum(s[i])

\* C9 as stated: the sanitized form is never empty, sanitizing it again
\* changes nothing, and a string with no alphanumeric character sanitizes to
\* RELATED_TO.
C9_NonEmptyIdempotentFallback ==
    /\ normStage >= 1 => normOut # <<>>
    /\ normStage >= 1 => (NoAlnum(normArg) => normOut = RELATED_TO)
    /\ normStage = 2 => normOut2 = normOut

\* C9, amended: the fallback is for the strings whose upper-cased form has no
\* alphanumeric character.
C9_NonEmptyIdempotentFallbackUpper ==
    /\ normStage >= 1 => normOut # <<>>
    /\ normStage >= 1 => (NoAlnum(Upper(normArg)) => normOut = RELATED_TO)
    /\ normStage = 2 => normOut2 = normOut

\* A string of punctuation, underscores and white space was sanitized twice.
C9_Witness ==
    /\ normStage = 2
    /\ normArg = <<"-", "_", " ", "\t">>
    /\ normOut = RELATED_TO

\* White space: str.isspace(), one character.
IsSpace(c) == c \in {" ", "\t"}

KeepAlnumOrUnderscore(c) == IsAlnum(c) \/ c = "_"

\* The algorithm as the specification words it: upper-case; white space to
\* underscore; delete what is neither alphanumeric nor underscore; collapse
\* runs of underscores; trim underscores; RELATED_TO if nothing is left.
StatedNormalize(p) ==
    LET upper == Upper(p)
        spaced == [i \in 1..Len(upper) |-> IF IsSpace(upper[i]) THEN "_" ELSE upper[i]]
        stripped == SelectSeq(spaced, KeepAlnumOrUnderscore)
    IN OrRelatedTo(Strip(CollapseUnderscores(stripped)))

\* C10: the sanitized form of every predicate string is what the stated
\* algorithm gives.
C10_MatchesStatedAlgorithm ==
    normStage >= 1 => normOut = StatedNormalize(normArg)

-----------------------------------------------------------------------------
(***************************************************************************)
(* Calls in flight together (specification SpecConc), served by separate   *)
(* workers against the shared stores.  The service holds no lock: a call   *)
(* is a sequence of store statements, each executed by the store on its    *)
(* own, and the statements of the calls in flight interleave in any order. *)
(* A statement reads the clock (calls) when it runs.                       *)
(***************************************************************************)

\* Calls made in one interleaved behaviour.
MaxConcCalls == 2

Procs == {1, 2}

\* The triples of the interleaved calls: two that share the name France.
ConcTriples == {t \in TripleUniverse : t.predicate = PredSpaced}

\* A request of the interleaved calls: one triple and the block it cites.
\* Both documents state Paris-France, D2 also France-Europe.
ConcRequests ==
    {r \in {[document_id |-> d, metadata |-> m, blocks |-> SourceBlocks(<<t>>, {}),
             triples |-> <<t>>] : d \in DocIds, m \in Metadatas, t \in ConcTriples} :
        r.document_id = "D2" \/ r.triples[1].subject = "Paris"}

IdleProc ==
    [op |-> "idle", pc |-> "idle", arg |-> None, document_id |-> None, i |-> 0,
     blocks_stored |-> 0, nodes_created |-> 0, relationships_created |-> 0]

InitConc ==
    /\ graph = EmptyGraph
    /\ blocksTbl = {}
    /\ calls = 0
    /\ uuids = 0
    /\ last = [op |-> "none", arg |-> None]
    /\ rep = FALSE
    /\ resp = [op |-> "none"]
    /\ hist = EmptyHist
    /\ procs = [p \in Procs |-> IdleProc]
    /\ normArg = <<>>
    /\ normOut = <<>>
    /\ normOut2 = <<>>
    /\ normStage = 0

\* A call is served by the first free worker.
FirstFree(p) == procs[p].pc = "idle" /\ \A q \in Procs : q < p => procs[q].pc # "idle"

Untouched == <<uuids, hist, normArg, normOut, normOut2, normStage>>

\* The position after triple i: the next triple's first statement, or the return.
AfterTriple(pr) ==
    IF pr.i < Len(pr.arg.triples)
    THEN [pr EXCEPT !.i = @ + 1, !.pc = "subject"]
    ELSE [pr EXCEPT !.pc = "return"]

\* ingest_triples_and_blocks is entered: the document id is resolved, the
\* table and the index are provided for (CREATE ... IF NOT EXISTS).
StartIngest(p, request) ==
    /\ FirstFree(p)
    /\ calls < MaxConcCalls
    /\ request.document_id # None
    /\ calls' = calls + 1
    /\ procs' = [procs EXCEPT ![p] =
          [IdleProc EXCEPT !.op = "ingest", !.arg = request,
                           !.document_id = request.document_id, !.i = 1,
                           !.pc = IF request.blocks = <<>> THEN "document" ELSE "block"]]
    /\ UNCHANGED <<graph, blocksTbl, last, rep, resp>>
    /\ UNCHANGED Untouched

\* _store_blocks: the INSERT of block i.
BlockStatement(p) ==
    LET pr == procs[p] IN
    /\ pr.pc = "block"
    /\ blocksTbl' = UpsertBlock(blocksTbl, pr.arg.blocks[pr.i], pr.document_id, calls)
    /\ procs' = [procs EXCEPT ![p] =
          IF pr.i < Len(pr.arg.blocks)
          THEN [pr EXCEPT !.i = @ + 1, !.blocks_stored = @ + 1]
          ELSE [pr EXCEPT !.i = 1, !.blocks_stored = @ + 1, !.pc = "document"]]
    /\ UNCHANGED <<graph, calls, last, rep, resp>>
    /\ UNCHANGED Untouched

\* _ingest_triples: the Document MERGE.  The store runs a node MERGE as a
\* match followed, when nothing matched, by a create.  Only a uniqueness
\* constraint on the merged property makes the store serialise the two, and
\* the service creates none: another call's statement can run in between.
\* A MERGE whose match finds the node completes at once (ON MATCH).
DocumentMatch(p) ==
    LET pr == procs[p]
        matched == DocsWithId(graph, pr.document_id)
    IN
    /\ pr.pc = "document"
    /\ IF matched = {}
       THEN /\ graph' = graph
            /\ procs' = [procs EXCEPT ![p] = [pr EXCEPT !.pc = "document_create"]]
       ELSE /\ graph' = MergeDocumentGiven(graph, pr.document_id, pr.arg.metadata,
                                           calls, matched)
            /\ procs' = [procs EXCEPT ![p] =
                  [pr EXCEPT !.nodes_created = 1, !.i = 1,
                             !.pc = IF pr.arg.triples = <<>> THEN "return" ELSE "subject"]]
    /\ UNCHANGED <<blocksTbl, calls, last, rep, resp>>
    /\ UNCHANGED Untouched

\* The create of a Document MERGE that matched nothing; nodes_created += 1.
DocumentCreate(p) ==
    LET pr == procs[p] IN
    /\ pr.pc = "document_create"
    /\ graph' = MergeDocumentGiven(graph, pr.document_id, pr.arg.metadata, calls, {})
    /\ procs' = [procs EXCEPT ![p] =
          [pr EXCEPT !.nodes_created = 1, !.i = 1,
                     !.pc = IF pr.arg.triples = <<>> THEN "return" ELSE "subject"]]
    /\ UNCHANGED <<blocksTbl, calls, last, rep, resp>>
    /\ UNCHANGED Untouched

\* The match of the subject's Entity MERGE of triple i.
SubjectMatch(p) ==
    LET pr == procs[p] IN
    /\ pr.pc = "subject"
    /\ procs' = [procs EXCEPT ![p] =
          [pr EXCEPT !.pc = IF EntitiesNamed(graph, pr.arg.triples[pr.i].subject) = {}
                            THEN "subject_create" ELSE "object"]]
    /\ UNCHANGED <<graph, blocksTbl, calls, last, rep, resp>>
    /\ UNCHANGED Untouched

\* The create of a subject MERGE that matched nothing.
SubjectCreate(p) ==
    LET pr == procs[p] IN
    /\ pr.pc = "subject_create"
    /\ graph' = MergeEntityGiven(graph, pr.arg.triples[pr.i].subject, calls, {})
    /\ procs' = [procs EXCEPT ![p] = [pr EXCEPT !.pc = "object"]]
    /\ UNCHANGED <<blocksTbl, calls, last, rep, resp>>
    /\ UNCHANGED Untouched

\* The match of the object's Entity MERGE of triple i; nodes_created += 2
\* once the statement has completed.
ObjectMatch(p) ==
    LET pr == procs[p] IN
    /\ pr.pc = "object"
    /\ procs' = [procs EXCEPT ![p] =
          IF EntitiesNamed(graph, pr.arg.triples[pr.i].object) = {}
          THEN [pr EXCEPT !.pc = "object_create"]
          ELSE [pr EXCEPT !.pc = "relationship", !.nodes_created = @ + 2]]
    /\ UNCHANGED <<graph, blocksTbl, calls, last, rep, resp>>
    /\ UNCHANGED Untouched

\* The create of an object MERGE that matched nothing; nodes_created += 2.
ObjectCreate(p) ==
    LET pr == procs[p] IN
    /\ pr.pc = "object_create"
    /\ graph' = MergeEntityGiven(graph, pr.arg.triples[pr.i].object, calls, {})
    /\ procs' = [procs EXCEPT ![p] =
          [pr EXCEPT !.pc = "relationship", !.nodes_created = @ + 2]]
    /\ UNCHANGED <<blocksTbl, calls, last, rep, resp>>
    /\ UNCHANGED Untouched

\* The relationship MERGE of triple i, between the nodes its MATCH binds (the
\* store locks bound nodes while it merges a relationship between them);
\* relationships_created += 1 when the statement returned a record.
RelationshipStatement(p) ==
    LET pr == procs[p]
        triple == pr.arg.triples[pr.i]
        m == MergeRelationship(graph, triple.subject, triple.object,
                               SanitizeRelationshipType(triple.predicate),
                               triple.predicate, triple.source, pr.document_id, calls)
    IN
    /\ pr.pc = "relationship"
    /\ graph' = m.g
    /\ procs' = [procs EXCEPT ![p] =
          [pr EXCEPT !.pc = "contains_subject",
                     !.relationships_created = IF m.rows > 0 THEN @ + 1 ELSE @]]
    /\ UNCHANGED <<blocksTbl, calls, last, rep, resp>>
    /\ UNCHANGED Untouched

\* The containment MERGE of the subject of triple i.
ContainsSubjectStatement(p) ==
    LET pr == procs[p] IN
    /\ pr.pc = "contains_subject"
    /\ graph' = MergeContains(graph, pr.document_id, pr.arg.triples[pr.i].subject, calls)
    /\ procs' = [procs EXCEPT ![p] = [pr EXCEPT !.pc = "contains_object"]]
    /\ UNCHANGED <<blocksTbl, calls, last, rep, resp>>
    /\ UNCHANGED Untouched

\* The containment MERGE of the object of triple i; the loop goes on.
ContainsObjectStatement(p) ==
    LET pr == procs[p] IN
    /\ pr.pc = "contains_object"
    /\ graph' = MergeContains(graph, pr.document_id, pr.arg.triples[pr.i].object, calls)
    /\ procs' = [procs EXCEPT ![p] = AfterTriple(pr)]
    /\ UNCHANGED <<blocksTbl, calls, last, rep, resp>>
    /\ UNCHANGED Untouched

\* ingest_triples_and_blocks returns its response.
ReturnIngest(p) ==
    LET pr == procs[p] IN
    /\ pr.op = "ingest" /\ pr.pc = "return"
    /\ resp' = [op |-> "ingest", document_id |-> pr.document_id,
                blocks_stored |-> pr.blocks_stored,
                triples_processed |-> Len(pr.arg.triples),
                nodes_created |-> pr.nodes_created,
                relationships_created |-> pr.relationships_created]
    /\ procs' = [procs EXCEPT ![p] = IdleProc]
    /\ UNCHANGED <<graph, blocksTbl, calls, last, rep>>
    /\ UNCHANGED Untouched

\* delete_document is entered.
StartDelete(p, document_id) ==
    /\ FirstFree(p)
    /\ calls < MaxConcCalls
    /\ calls' = calls + 1
    /\ procs' = [procs EXCEPT ![p] =
          [IdleProc EXCEPT !.op = "delete", !.arg = document_id,
                           !.document_id = document_id, !.pc = "cascade"]]
    /\ UNCHANGED <<graph, blocksTbl, last, rep, resp>>
    /\ UNCHANGED Untouched

\* delete_document: the graph statement.
CascadeStatement(p) ==
    LET pr == procs[p] IN
    /\ pr.pc = "cascade"
    /\ graph' = DeleteDocumentCascade(graph, pr.document_id)
    /\ procs' = [procs EXCEPT ![p] = [pr EXCEPT !.pc = "delete_blocks"]]
    /\ UNCHANGED <<blocksTbl, calls, last, rep, resp>>
    /\ UNCHANGED Untouched

\* delete_document: the DELETE of the block rows.
DeleteBlocksStatement(p) ==
    LET pr == procs[p] IN
    /\ pr.pc = "delete_blocks"
    /\ blocksTbl' = DeleteBlocks(blocksTbl, pr.document_id)
    /\ procs' = [procs EXCEPT ![p] = [pr EXCEPT !.pc = "return"]]
    /\ UNCHANGED <<graph, calls, last, rep, resp>>
    /\ UNCHANGED Untouched

\* delete_document returns True.
ReturnDelete(p) ==
    LET pr == procs[p] IN
    /\ pr.op = "delete" /\ pr.pc = "return"
    /\ resp' = [op |-> "delete", ok |-> TRUE]
    /\ procs' = [procs EXCEPT ![p] = IdleProc]
    /\ UNCHANGED <<graph, blocksTbl, calls, last, rep>>
    /\ UNCHANGED Untouched

NextConc ==
    \E p \in Procs :
        \/ \E request \in ConcRequests : StartIngest(p, request)
        \/ BlockStatement(p)
        \/ DocumentMatch(p)
        \/ DocumentCreate(p)
        \/ SubjectMatch(p)
        \/ SubjectCreate(p)
        \/ ObjectMatch(p)
        \/ ObjectCreate(p)
        \/ RelationshipStatement(p)
        \/ ContainsSubjectStatement(p)
        \/ ContainsObjectStatement(p)
        \/ ReturnIngest(p)
        \/ \E document_id \in DocIds : StartDelete(p, document_id)
        \/ CascadeStatement(p)
        \/ DeleteBlocksStatement(p)
        \/ ReturnDelete(p)

SpecConc == InitConc /\ [][NextConc]_vars

\* C3: in every state of every interleaving of ingest and delete calls, no
\* two Entity nodes have the same name.
C3_OneEntityPerName ==
    \A e1 \in graph.ents, e2 \in graph.ents : e1.name = e2.name => e1 = e2

-----------------------------------------------------------------------------
(***************************************************************************)
(* Ingestion with failing store operations (specification SpecFail).  A    *)
(* block INSERT or a statement of a triple may raise (malformed data, a    *)
(* transient store error), and a store may become unreachable at a point   *)
(* of the call and stay so to its end.                                     *)
(***************************************************************************)

\* Calls made in one behaviour with failures.
MaxFailCalls == 1

\* Requests of two triples, Paris-France then France-Europe, citing two blocks.
FailRequests ==
    {r \in Requests : /\ Len(r.triples) > 1 /\ Len(r.blocks) > 1
                      /\ r.triples[1].subject = "Paris"
                      /\ r.triples[Len(r.triples)].subject = "France"}

Steps == {SubjectMerge, ObjectMerge, RelationshipMerge, SubjectContains, ObjectContains}

\* Where a store becomes unreachable: the relational store at the
\* provisioning of the table (at = NoFailure) or at the INSERT of block `at`;
\* the graph store at the Document MERGE (triple = NoFailure) or at statement
\* `step` of triple `triple`.
DownPoints(request) ==
    {[store |-> "relational", at |-> i] : i \in 0..Len(request.blocks)}
    \cup {[store |-> "graph", triple |-> 0, step |-> 0]}
    \cup {[store |-> "graph", triple |-> i, step |-> k] :
             i \in 1..Len(request.triples), k \in Steps}

\* ingest_triples_and_blocks and its route, the INSERTs at the positions `bad`
\* raising, statement failAt[i] of triple i raising, and `fatal` naming the
\* operation outside every try block that raises: "provision" (acquire,
\* CREATE TABLE, CREATE INDEX), "document" (the Document MERGE) or "none".
\* An exception that leaves the service becomes the route's 500.
IngestOutcome(g, tbl, request, now, bad, failAt, fatal) ==
    LET document_id == request.document_id
        sb == StoreBlocks(tbl, request.blocks, document_id, now, bad)
        it == IngestTriples(g, request.triples, document_id, request.metadata,
                            now, failAt)
    IN CASE fatal = "provision" ->
               [g |-> g, tbl |-> tbl, resp |-> [op |-> "ingest", status |-> 500]]
         [] fatal = "document" ->
               [g |-> g, tbl |-> sb.tbl, resp |-> [op |-> "ingest", status |-> 500]]
         [] OTHER ->
               [g |-> it.g, tbl |-> sb.tbl,
                resp |-> [op |-> "ingest", status |-> 201,
                          document_id |-> document_id,
                          blocks_stored |-> sb.blocks_stored,
                          triples_processed |-> Len(request.triples),
                          nodes_created |-> it.nodes_created,
                          relationships_created |-> it.relationships_created]]

\* Both stores reachable.
NotDown == [store |-> "none"]

\* The operations that raise once a store is unreachable from `down` on.
BadFrom(request, down) ==
    IF down.store = "relational" /\ down.at > 0
    THEN down.at..Len(request.blocks) ELSE {}

FailAtFrom(request, down) ==
    [i \in 1..Len(request.triples) |->
        IF down.store = "graph" /\ down.triple > 0
        THEN IF i < down.triple THEN NoFailure
             ELSE IF i = down.triple THEN down.step ELSE SubjectMerge
        ELSE NoFailure]

FatalFrom(down) ==
    IF down.store = "relational" /\ down.at = 0 THEN "provision"
    ELSE IF down.store = "graph" /\ down.triple = 0 THEN "document"
    ELSE "none"

InitFail == Init

\* The call with its outcome `out`.
IngestFailing(request, bad, failAt, down, out) ==
    /\ calls < MaxFailCalls
    /\ graph' = out.g
    /\ blocksTbl' = out.tbl
    /\ resp' = out.resp
    /\ calls' = calls + 1
    /\ last' = [op |-> "ingest", arg |-> request, bad |-> bad, failAt |-> failAt,
                down |-> down]
    /\ rep' = FALSE
    /\ UNCHANGED <<uuids, hist, procs, normArg, normOut, normOut2, normStage>>

\* An ingest call some of whose block INSERTs raise.
IngestBadBlocks(request, bad) ==
    \E out \in {IngestOutcome(graph, blocksTbl, request, calls + 1, bad,
                              NoFailures(request.triples), "none")} :
        IngestFailing(request, bad, NoFailures(request.triples), NotDown, out)

\* An ingest call some of whose triple statements raise.
IngestBadTriples(request, failAt) ==
    \E out \in {IngestOutcome(graph, blocksTbl, request, calls + 1, {}, failAt, "none")} :
        IngestFailing(request, {}, failAt, NotDown, out)

\* An ingest call during which a store becomes unreachable.
IngestUnreachable(request, down) ==
    \E out \in {IngestOutcome(graph, blocksTbl, request, calls + 1,
                              BadFrom(request, down), FailAtFrom(request, down),
                              FatalFrom(down))} :
        IngestFailing(request, BadFrom(request, down), FailAtFrom(request, down),
                      down, out)

NextFail ==
    \/ \E request \in FailRequests :
          \E bad \in SUBSET (1..Len(request.blocks)) : IngestBadBlocks(request, bad)
    \/ \E request \in FailRequests :
          \E failAt \in [1..Len(request.triples) -> {NoFailure} \cup Steps] :
                IngestBadTriples(request, failAt)
    \/ \E request \in FailRequests :
          \E down \in DownPoints(request) : IngestUnreachable(request, down)

SpecFail == InitFail /\ [][NextFail]_vars

\* Triple t of an ingest under document_id is in the graph: its two entities,
\* an edge of its type between them, and the document's containment of both.
TripleInGraph(g, t, document_id) ==
    \E su \in EntitiesNamed(g, t.subject), ob \in EntitiesNamed(g, t.object) :
        /\ RelsBetween(g, su, ob, SanitizeRelationshipType(t.predicate)) # {}
        /\ \E d \in DocsWithId(g, document_id) : Contains(g, d, su) /\ Contains(g, d, ob)

\* The triples of the last call none of whose statements raised are in the graph.
UnfailedTriplesIngested ==
    \A j \in 1..Len(last.arg.triples) :
        last.failAt[j] = NoFailure
            => TripleInGraph(graph, last.arg.triples[j], last.arg.document_id)

\* C11: after an ingest some of whose block writes failed, the call has
\* returned its response, blocks_stored is the number of blocks minus the
\* number that failed, every other block of the batch is in the table as
\* written by this call, and the triples are in the graph.
C11_BlockFailureSkipsOnlyThatBlock ==
    (last.op = "ingest" /\ last.bad # {}) =>
        /\ resp.status = 201
        /\ resp.blocks_stored = Len(last.arg.blocks) - Cardinality(last.bad)
        /\ \A i \in 1..Len(last.arg.blocks) :
              i \notin last.bad =>
                 \E r \in blocksTbl : /\ r.id = last.arg.blocks[i].id
                                      /\ r.raw_text = last.arg.blocks[i].raw_text
                                      /\ r.updated_at = calls
        /\ UnfailedTriplesIngested

\* The first of two blocks failed; the second is stored and both triples
\* are in the graph.
C11_Witness ==
    /\ last.op = "ingest" /\ last.bad = {1}
    /\ resp.status = 201 /\ resp.blocks_stored = 1
    /\ \E r \in blocksTbl : r.id = last.arg.blocks[2].id
    /\ \A j \in 1..Len(last.arg.triples) :
          TripleInGraph(graph, last.arg.triples[j], last.arg.document_id)

\* C12: after an ingest in which a statement of some triple raised, the call
\* has returned its response with every triple counted as processed, and
\* every triple none of whose statements raised is in the graph, also those
\* that come after the failed one.
C12_TripleFailureSkipsOnlyThatTriple ==
    (last.op = "ingest" /\ \E j \in DOMAIN last.failAt : last.failAt[j] # NoFailure) =>
        /\ resp.status = 201
        /\ resp.triples_processed = Len(last.arg.triples)
        /\ UnfailedTriplesIngested

\* The first triple failed at one of its statements and the second, after it,
\* is in the graph.
C12_Witness ==
    /\ last.op = "ingest" /\ Len(last.arg.triples) = 2
    /\ last.failAt[1] \in Steps /\ last.failAt[2] = NoFailure
    /\ resp.status = 201
    /\ TripleInGraph(graph, last.arg.triples[2], last.arg.document_id)
    /\ ~ TripleInGraph(graph, last.arg.triples[1], last.arg.document_id)

\* C13: an ingest call during which a store became unreachable, at whichever
\* store operation, ends with an error, not with a success response.
C13_UnreachablePropagates ==
    (last.op = "ingest" /\ last.down.store # "none") => resp.status = 500

-----------------------------------------------------------------------------
(***************************************************************************)
(* The read operations and their routes (specification SpecRead).          *)
(***************************************************************************)

\* depth: int = Query(2, ge=1, le=5); limit: int = Query(50, ge=1, le=500)
MinDepth == 1
MaxDepth == 5
MinLimit == 1
MaxLimit == 500

\* get_block_by_id: SELECT ... FROM document_blocks WHERE id = $1; the row
\* fetchrow gives, or none.
GetBlockById(tbl, block_id) == RowsWithId(tbl, block_id)

\* A get_block route that answers 200 whatever the service returned.
GetBlockResponsesNoCheck(tbl, block_id) ==
    {[op |-> "get_block", status |-> 200, store_calls |-> 1,
      rows |-> GetBlockById(tbl, block_id)]}

\* The get_block route: 404 when the service returned None.
GetBlockResponses(tbl, block_id) ==
    IF GetBlockById(tbl, block_id) = {}
    THEN {[op |-> "get_block", status |-> 404, store_calls |-> 1]}
    ELSE {[op |-> "get_block", status |-> 200, store_calls |-> 1,
           rows |-> GetBlockById(tbl, block_id)]}

\* get_document_graph:
\*   MATCH (d:Document {id: $document_id})-[:CONTAINS]->(e:Entity)
\*   OPTIONAL MATCH (e)-[r]-(related:Entity) WHERE (d)-[:CONTAINS]->(related)
\*   RETURN d, collect(DISTINCT e), collect(DISTINCT r), collect(DISTINCT related)
\* One record per d that has a row, that is per Document node of the id that
\* contains an entity.
DocumentGraphRecords(g, document_id) ==
    {[document |-> d,
      entities |-> {e \in g.ents : Contains(g, d, e)},
      relationships |->
          {r \in g.rels : \E e \in g.ents, related \in g.ents :
                             /\ Contains(g, d, e) /\ Contains(g, d, related)
                             /\ \/ r.src = e.nid /\ r.dst = related.nid
                                \/ r.dst = e.nid /\ r.src = related.nid}] :
        d \in {x \in DocsWithId(g, document_id) :
                  \E e \in g.ents : Contains(g, x, e)}}

\* The get_document_graph route: result.single() gives the first record or
\* None; the service returns {} for None and the route answers 404 for {}.
GetDocumentGraphResponses(g, document_id) ==
    IF DocumentGraphRecords(g, document_id) = {}
    THEN {[op |-> "get_graph", status |-> 404, store_calls |-> 1]}
    ELSE {[op |-> "get_graph", status |-> 200, store_calls |-> 1,
           document |-> rec.document, entities |-> rec.entities,
           relationships |-> rec.relationships] :
             rec \in DocumentGraphRecords(g, document_id)}

\* rel.predicate of a relationship that has no such property (null).
NullPredicate == <<"null">>

\* Every relationship of the graph as a traversal sees it: its identity, its
\* two ends, and what the query projects of it (type(rel), rel.predicate,
\* rel.source; a CONTAINS edge has neither predicate nor source).
AllEdges(g) ==
    {[eid |-> r.eid, a |-> r.src, b |-> r.dst,
      shown |-> [type |-> r.type, predicate |-> r.predicate, source |-> r.source]] :
        r \in g.rels}
    \cup {[eid |-> c.eid, a |-> c.doc, b |-> c.ent,
           shown |-> [type |-> <<"CONTAINS">>, predicate |-> NullPredicate,
                      source |-> None]] : c \in g.cnts}

\* The node a path from n ends at.
EndOf(n, p) == IF p = <<>> THEN n ELSE p[Len(p)].node

\* The paths from node n extended by one relationship, taken in either
\* direction and at most once in a path: sequences of [edge, node reached].
Extended(g, n, paths) ==
    UNION
    {{Append(p, [edge |-> e, node |-> IF e.a = EndOf(n, p) THEN e.b ELSE e.a]) :
         e \in {f \in AllEdges(g) :
                   /\ f.a = EndOf(n, p) \/ f.b = EndOf(n, p)
                   /\ \A i \in 1..Len(p) : p[i].edge.eid # f.eid}} :
       p \in paths}

\* The paths of exactly k relationships from node n.
RECURSIVE PathsOfLength(_, _, _)
PathsOfLength(g, n, k) ==
    IF k = 0 THEN {<<>>}
    ELSE UNION {Extended(g, n, shorter) : shorter \in {PathsOfLength(g, n, k - 1)}}

\* -[r*1..depth]-
PathsUpTo(g, n, depth) == UNION {PathsOfLength(g, n, k) : k \in 1..depth}

\* [rel in rels | {type: type(rel), predicate: rel.predicate, source: rel.source}]
Shown(p) == [i \in 1..Len(p) |-> p[i].edge.shown]

\* A node as the result shows it: its label and its name (an Entity) or id (a
\* Document).
NodeView(g, nid) ==
    IF \E e \in g.ents : e.nid = nid
    THEN [nid |-> nid, label |-> "Entity", name |-> NameOf(g, nid)]
    ELSE [nid |-> nid, label |-> "Document",
          name |-> (CHOOSE d \in g.docs : d.nid = nid).id]

\* The records for the paths from e: one per projected list, its
\* related_entities the ends of the paths that project to the list.
RecordsOfPaths(g, e, paths) ==
    {[entity |-> e, relationships |-> sh,
      related_entities |->
          {NodeView(g, EndOf(e.nid, p)) : p \in {q \in paths : Shown(q) = sh}}] :
        sh \in {Shown(p) : p \in paths}}

\* query_graph_by_entity:
\*   MATCH path = (e:Entity {name: $entity_name})-[r*1..depth]-(related)
\*   WITH e, relationships(path) as rels, related
\*   RETURN e, collect(DISTINCT related) as related_entities,
\*          [rel in rels | {...}] as relationships  LIMIT 100
\* The expressions of RETURN that do not aggregate, e and the projected list,
\* are the grouping key: one record per entity and projected list.
QueryEntityRecords(g, entity_name, depth) ==
    UNION
    {UNION {RecordsOfPaths(g, e, paths) : paths \in {PathsUpTo(g, e.nid, depth)}} :
       e \in EntitiesNamed(g, entity_name)}

\* The service then takes result.single(), the first of the records or None,
\* and returns {} for None; whichever record the store lists first (any can
\* be, LIMIT 100 keeping the first hundred) is the result.
QueryEntityResults(g, entity_name, depth) == QueryEntityRecords(g, entity_name, depth)

\* The handler of query_by_entity: 404 when the service returned {}.
QueryEntityAnswers(results) ==
    IF results = {}
    THEN {[op |-> "query", status |-> 404, store_calls |-> 1]}
    ELSE {[op |-> "query", status |-> 200, store_calls |-> 1, entity |-> rec.entity,
           related_entities |-> rec.related_entities,
           relationships |-> rec.relationships] : rec \in results}

\* A query_by_entity route without the bounds on depth.
QueryEntityResponsesUnchecked(g, entity_name, depth) ==
    UNION {QueryEntityAnswers(results) :
              results \in {QueryEntityResults(g, entity_name, depth)}}

\* The query_by_entity route: depth is validated (ge=1, le=5) before the
\* handler runs.
QueryEntityResponses(g, entity_name, depth) ==
    IF depth < MinDepth \/ depth > MaxDepth
    THEN {[op |-> "query", status |-> 422, store_calls |-> 0]}
    ELSE UNION {QueryEntityAnswers(results) :
                   results \in {QueryEntityResults(g, entity_name, depth)}}

\* The search_by_predicate route: limit is validated (ge=1, le=500) before the
\* handler runs.
SearchResponses(g, predicate, limit) ==
    IF limit < MinLimit \/ limit > MaxLimit
    THEN {[op |-> "search", status |-> 422, store_calls |-> 0]}
    ELSE {[op |-> "search", status |-> 200, store_calls |-> 1, records |-> records] :
             records \in SearchByPredicateResults(g, predicate, limit)}

\* Ingest and delete calls made in one behaviour with reads.
MaxReadCalls == 2

\* The requests before the reads: D1 states Paris-France and France-Europe,
\* D2 states Paris-France or nothing.
ReadRequests ==
    {r \in Requests :
        /\ \A i \in 1..Len(r.triples) : r.triples[i].predicate = PredSpaced
        /\ r.document_id = "D1" =>
              /\ Len(r.triples) > 1
              /\ r.triples[1].subject = "Paris"
              /\ r.triples[Len(r.triples)].subject = "France"
        /\ r.document_id = "D2" =>
              /\ Len(r.triples) < 2
              /\ \A i \in 1..Len(r.triples) : r.triples[i].subject = "Paris"}

BlockIds == {"b1", "b2"}
ReadDepths == {MinDepth - 1, MinDepth, MinDepth + 1, MaxDepth, MaxDepth + 1}
ReadLimits == {MinLimit - 1, MinLimit, MaxLimit, MaxLimit + 1}

InitRead == Init

IngestBeforeRead(request) == calls < MaxReadCalls /\ Ingest(request)

DeleteBeforeRead(document_id) == calls < MaxReadCalls /\ Delete(document_id)

\* A read call: it changes no store; `responses` are the answers it can give.
Read(op, arg, responses) ==
    /\ \E response \in responses : resp' = response
    /\ last' = [op |-> op, arg |-> arg]
    /\ rep' = FALSE
    /\ UNCHANGED <<graph, blocksTbl, calls, uuids, hist, procs,
                   normArg, normOut, normOut2, normStage>>

GetBlock(block_id) ==
    Read("get_block", [block_id |-> block_id], GetBlockResponses(blocksTbl, block_id))

GetDocumentGraph(document_id) ==
    Read("get_graph", [document_id |-> document_id],
         GetDocumentGraphResponses(graph, document_id))

QueryByEntity(entity_name, depth) ==
    Read("query", [entity_name |-> entity_name, depth |-> depth],
         QueryEntityResponses(graph, entity_name, depth))

SearchByPredicate(predicate, limit) ==
    Read("search", [predicate |-> predicate, limit |-> limit],
         SearchResponses(graph, predicate, limit))

NextRead ==
    \/ \E request \in ReadRequests : IngestBeforeRead(request)
    \/ \E document_id \in DocIds : DeleteBeforeRead(document_id)
    \/ \E block_id \in BlockIds : GetBlock(block_id)
    \/ \E document_id \in DocIds : GetDocumentGraph(document_id)
    \/ \E entity_name \in Names, depth \in ReadDepths : QueryByEntity(entity_name, depth)
    \/ \E predicate \in SearchPredicates, limit \in ReadLimits :
          SearchByPredicate(predicate, limit)

SpecRead == InitRead /\ [][NextRead]_vars

ValidDepth(depth) == depth >= MinDepth /\ depth <= MaxDepth
ValidLimit(limit) == limit >= MinLimit /\ limit <= MaxLimit

C15_InvalidRejectedBeforeStore ==
    [][(\/ last'.op = "query" /\ ~ ValidDepth(last'.arg.depth)
        \/ last'.op = "search" /\ ~ ValidLimit(last'.arg.limit))
       => /\ resp'.status = 422
          /\ resp'.store_calls = 0
          /\ graph' = graph /\ blocksTbl' = blocksTbl]_vars

\* A query of depth 6 for an entity that exists was rejected.
C15_Witness ==
    /\ last.op = "query" /\ last.arg.depth > MaxDepth
    /\ EntitiesNamed(graph, last.arg.entity_name) # {}
    /\ resp.status = 422 /\ resp.store_calls = 0

\* LIMIT 100
QueryLimit == 100

\* C16: the related entities of a QueryEntity at depth 1 are Entity nodes
\* joined to the seed by one relationship edge; those at depth d are among
\* those at depth d + 1, for d in 1..4; and they are never more than 100.
C16_TraversalBoundedAndMonotone ==
    (last.op = "query" /\ resp.status = 200) =>
        /\ last.arg.depth = MinDepth =>
              \A n \in resp.related_entities :
                  /\ n.label = "Entity"
                  /\ \E r \in graph.rels :
                        \/ r.src = resp.entity.nid /\ r.dst = n.nid
                        \/ r.dst = resp.entity.nid /\ r.src = n.nid
        /\ last.arg.depth < MaxDepth =>
              \A deeper \in QueryEntityResults(graph, last.arg.entity_name,
                                               last.arg.depth + 1) :
                  resp.related_entities \subseteq deeper.related_entities
        /\ Cardinality(resp.related_entities) <= QueryLimit

\* C17: GetDocumentGraph of a document that exists returns its Document node,
\* exactly the entities it contains, and only relationship edges both of
\* whose ends it contains.
C17_DocumentGraphExact ==
    (last.op = "get_graph" /\ DocsWithId(graph, last.arg.document_id) # {}) =>
        /\ resp.status = 200
        /\ resp.document \in DocsWithId(graph, last.arg.document_id)
        /\ resp.entities = {e \in graph.ents : Contains(graph, resp.document, e)}
        /\ \A r \in resp.relationships :
              /\ r \in graph.rels
              /\ r.src \in {e.nid : e \in resp.entities}
              /\ r.dst \in {e.nid : e \in resp.entities}

-----------------------------------------------------------------------------
(***************************************************************************)
(* Repeated ingestion with changing content (specification SpecRepeat):    *)
(* the same block id with another text, the same document id with other    *)
(* metadata, the same relationship asserted by another document.           *)
(***************************************************************************)

\* Calls made in one behaviour of repeated ingestion.
MaxRepeatCalls == 3

\* Two versions of block b1.
BlockVersions ==
    {[id |-> "b1", raw_text |-> "x", terms |-> <<"k">>, metadata |-> None],
     [id |-> "b1", raw_text |-> "y", terms |-> <<>>, metadata |-> "m"]}

RepeatMetadatas == {None, "m1"}

\* Requests of one block and one triple from Paris to France.
RepeatRequests ==
    {[document_id |-> d, metadata |-> m, blocks |-> <<b>>, triples |-> <<t>>] :
        d \in DocIds, m \in RepeatMetadatas, b \in BlockVersions,
        t \in {u \in TripleUniverse : u.subject = "Paris"}}

\* For each (subject, type, object), the document of the last ingest call
\* that merged a triple of that key.
RECURSIVE Asserted(_, _, _, _)
Asserted(h, triples, i, document_id) ==
    IF i > Len(triples) THEN h
    ELSE LET k == Keyed(triples[i]) IN
         Asserted({a \in h : ~ (/\ a.subject = k.subject /\ a.object = k.object
                                /\ a.type = k.type)}
                  \cup {[subject |-> k.subject, type |-> k.type, object |-> k.object,
                         document_id |-> document_id]},
                  triples, i + 1, document_id)

InitRepeat ==
    /\ graph = EmptyGraph
    /\ blocksTbl = {}
    /\ calls = 0
    /\ uuids = 0
    /\ last = [op |-> "none", arg |-> None]
    /\ rep = FALSE
    /\ resp = [op |-> "none"]
    /\ hist = [asserted |-> {}]
    /\ procs = Idle
    /\ normArg = <<>>
    /\ normOut = <<>>
    /\ normOut2 = <<>>
    /\ normStage = 0

\* ingest_triples_and_blocks (and its route), no statement failing.
IngestAgain(request) ==
    /\ calls < MaxRepeatCalls
    /\ \E sb \in {StoreBlocks(blocksTbl, request.blocks, request.document_id,
                              calls + 1, {})},
          it \in {IngestTriples(graph, request.triples, request.document_id,
                                request.metadata, calls + 1,
                                NoFailures(request.triples))} :
          /\ blocksTbl' = sb.tbl
          /\ graph' = it.g
          /\ resp' = [op |-> "ingest", document_id |-> request.document_id,
                      blocks_stored |-> sb.blocks_stored,
                      triples_processed |-> Len(request.triples),
                      nodes_created |-> it.nodes_created,
                      relationships_created |-> it.relationships_created]
    /\ calls' = calls + 1
    /\ hist' = [asserted |-> Asserted(hist.asserted, request.triples, 1,
                                      request.document_id)]
    /\ rep' = (last.op = "ingest" /\ last.arg = request)
    /\ last' = [op |-> "ingest", arg |-> request]
    /\ UNCHANGED <<uuids, procs, normArg, normOut, normOut2, normStage>>

\* delete_document (and its route).
DeleteBetween(document_id) ==
    /\ calls < MaxRepeatCalls
    /\ graph' = DeleteDocumentCascade(graph, document_id)
    /\ blocksTbl' = DeleteBlocks(blocksTbl, document_id)
    /\ calls' = calls + 1
    /\ resp' = [op |-> "delete", ok |-> TRUE]
    /\ rep' = FALSE
    /\ last' = [op |-> "delete", arg |-> document_id]
    /\ UNCHANGED <<uuids, hist, procs, normArg, normOut, normOut2, normStage>>

NextRepeat ==
    \/ \E request \in RepeatRequests : IngestAgain(request)
    \/ \E document_id \in DocIds : DeleteBetween(document_id)

SpecRepeat == InitRepeat /\ [][NextRepeat]_vars

\* C18: upserting a block whose id already has a row overwrites that row's
\* raw_text, terms and metadata with the new values and sets updated_at to
\* the time of the call, created_at keeping the value of the first insertion;
\* and after any step no block id has more than one row.
C18_UpsertOverwritesKeepsCreatedAt ==
    [][/\ \A id \in BlockIds : Cardinality(RowsWithId(blocksTbl', id)) <= 1
       /\ IsCall("ingest") =>
            \A i \in 1..Len(last'.arg.blocks) :
                \A old \in RowsWithId(blocksTbl, last'.arg.blocks[i].id) :
                    \E new \in RowsWithId(blocksTbl', old.id) :
                        /\ new.raw_text = last'.arg.blocks[i].raw_text
                        /\ new.terms = last'.arg.blocks[i].terms
                        /\ new.metadata = JsonDumps(last'.arg.blocks[i].metadata)
                        /\ new.updated_at = calls'
                        /\ new.created_at = old.created_at]_vars

\* A row first inserted with text "x", overwritten by a later call with "y".
C18_Witness ==
    /\ last.op = "ingest"
    /\ last.arg.blocks[1].raw_text = "y"
    /\ \E r \in RowsWithId(blocksTbl, "b1") :
          /\ r.raw_text = "y"
          /\ r.metadata = JsonDumps("m")
          /\ r.created_at < r.updated_at
          /\ r.updated_at = calls

\* C19: an ingest call under a document id whose Document node exists
\* changes of that node only updated_at (to the time of the call): metadata
\* and created_at keep the values of the first ingestion, whatever metadata
\* the request carries; and every Document node present before an ingest call
\* is present after it.
C19_ExistingDocumentOnlyTouched ==
    [][IsCall("ingest") =>
          /\ \A d \in DocsWithId(graph, last'.arg.document_id) :
                [d EXCEPT !.updated_at = calls'] \in graph'.docs
          /\ \A d \in graph.docs : \E n \in graph'.docs : n.nid = d.nid]_vars

\* A Document created without metadata, ingested again with metadata "m1".
C19_Witness ==
    /\ last.op = "ingest"
    /\ last.arg.metadata = "m1"
    /\ \E d \in DocsWithId(graph, last.arg.document_id) :
          /\ d.metadata = JsonDumps(None)
          /\ d.updated_at = calls
          /\ d.created_at < calls

\* C20: each relationship edge's document_id is the id of the document that
\* most recently asserted it, that is, of the last ingest call that merged a
\* triple with the edge's subject, type token and object.
C20_EdgeDocumentIsLastAsserter ==
    \A r \in graph.rels :
        \E a \in hist.asserted :
            /\ a.subject = NameOf(graph, r.src)
            /\ a.type = r.type
            /\ a.object = NameOf(graph, r.dst)
            /\ a.document_id = r.document_id

-----------------------------------------------------------------------------
(***************************************************************************)
(* The contents of the stores, identities and timestamps left out: what    *)
(* two runs must agree on to have reached the same state.  Each element is *)
(* shown by its attributes and the names at its ends, with the number of   *)
(* elements that look alike.                                               *)
(***************************************************************************)

DocIdOf(g, nid) == (CHOOSE d \in g.docs : d.nid = nid).id

DocShape(d) == [id |-> d.id, metadata |-> d.metadata]
EntShape(e) == [name |-> e.name, type |-> e.type]
RelShape(g, r) ==
    [subject |-> NameOf(g, r.src), type |-> r.type, object |-> NameOf(g, r.dst),
     predicate |-> r.predicate, source |-> r.source, document_id |-> r.document_id]
CntShape(g, c) == [document_id |-> DocIdOf(g, c.doc), name |-> NameOf(g, c.ent)]
RowShape(r) ==
    [id |-> r.id, document_id |-> r.document_id, raw_text |-> r.raw_text,
     terms |-> r.terms, metadata |-> r.metadata]

EntContents(g) ==
    {[shape |-> EntShape(e),
      n |-> Cardinality({x \in g.ents : EntShape(x) = EntShape(e)})] : e \in g.ents}

RelContents(g) ==
    {[shape |-> RelShape(g, r),
      n |-> Cardinality({x \in g.rels : RelShape(g, x) = RelShape(g, r)})] :
        r \in g.rels}

CntContents(g) ==
    {[shape |-> CntShape(g, c),
      n |-> Cardinality({x \in g.cnts : CntShape(g, x) = CntShape(g, c)})] :
        c \in g.cnts}

DocContents(g) ==
    {[shape |-> DocShape(d),
      n |-> Cardinality({x \in g.docs : DocShape(x) = DocShape(d)})] : d \in g.docs}

RowContents(tbl) == {RowShape(r) : r \in tbl}

Contents(g, tbl) ==
    [docs |-> DocContents(g), ents |-> EntContents(g), rels |-> RelContents(g),
     cnts |-> CntContents(g), blocks |-> RowContents(tbl)]

\* Both stores after a call ingest(request) that runs alone, nothing failing.
AfterIngestAlone(g, tbl, request, now) ==
    [g   |-> IngestTriples(g, request.triples, request.document_id,
                           request.metadata, now, NoFailures(request.triples)).g,
     tbl |-> StoreBlocks(tbl, request.blocks, request.document_id, now, {}).tbl]

\* Two ingest calls are the only calls made so far, and each has run its
\* last store statement.
TwoIngestsFinished ==
    /\ calls = Cardinality(Procs)
    /\ \A p \in Procs : procs[p].op = "ingest" /\ procs[p].pc = "return"

\* The two calls touch the same entity names or block ids.
TouchSame(r1, r2) ==
    \/ \E i \in 1..Len(r1.triples), j \in 1..Len(r2.triples) :
          {r1.triples[i].subject, r1.triples[i].object}
             \cap {r2.triples[j].subject, r2.triples[j].object} # {}
    \/ \E i \in 1..Len(r1.blocks), j \in 1..Len(r2.blocks) :
          r1.blocks[i].id = r2.blocks[j].id

\* C21: two concurrent ingest calls that touch the same entity names or block
\* ids end, whatever the interleaving of their store statements, in the state
\* that running the first to start and then the other one after the other
\* ends in (itself one of the interleavings): the same Entity nodes,
\* relationship edges, containment edges and block rows, with the same contents.
C21_InterleavingsConverge ==
    (TwoIngestsFinished /\ TouchSame(procs[1].arg, procs[2].arg)) =>
        \E first \in {AfterIngestAlone(EmptyGraph, {}, procs[1].arg, 1)} :
        \E both \in {AfterIngestAlone(first.g, first.tbl, procs[2].arg, 2)} :
            /\ EntContents(graph) = EntContents(both.g)
            /\ RelContents(graph) = RelContents(both.g)
            /\ CntContents(graph) = CntContents(both.g)
            /\ RowContents(blocksTbl) = RowContents(both.tbl)

-----------------------------------------------------------------------------
(***************************************************************************)
(* A failed ingest and its blind retry (specification SpecRetry): a first  *)
(* call may prepare the stores, then a call suffers failures and the       *)
(* caller sends the same request again.  hist keeps the stores as they     *)
(* were before the failed call.                                            *)
(***************************************************************************)

\* Calls made in one behaviour with a retry.
MaxRetryCalls == 3

\* The requests that prepare the stores: one triple from Paris to France.
SeedRequests ==
    {r \in Requests : Len(r.triples) = 1
                      /\ r.triples[1].subject = "Paris"}

\* The requests that fail and are retried: two triples citing two blocks,
\* either Paris-France then France-Europe, or Paris-France twice in two
\* wordings that normalize to one type token.
RetryRequests ==
    FailRequests
    \cup {r \in Requests : /\ Len(r.triples) > 1
                            /\ r.triples[1].predicate = PredSpaced
                            /\ r.triples[Len(r.triples)].predicate = PredUnderscored}

\* What can fail in one call: some block INSERTs, or some statements of the
\* triples, or an operation outside every try block.
Failures(request) ==
    {[bad |-> b, failAt |-> NoFailures(request.triples), fatal |-> "none"] :
        b \in SUBSET (1..Len(request.blocks))}
    \cup {[bad |-> {}, failAt |-> f, fatal |-> "none"] :
            f \in [1..Len(request.triples) -> {NoFailure} \cup Steps]}
    \cup {[bad |-> {}, failAt |-> NoFailures(request.triples), fatal |-> x] :
            x \in {"provision", "document"}}

NoneFailing(request) ==
    [bad |-> {}, failAt |-> NoFailures(request.triples), fatal |-> "none"]

InitRetry ==
    /\ graph = EmptyGraph
    /\ blocksTbl = {}
    /\ calls = 0
    /\ uuids = 0
    /\ last = [op |-> "none", arg |-> None]
    /\ rep = FALSE
    /\ resp = [op |-> "none"]
    /\ hist = [g |-> EmptyGraph, tbl |-> {}]
    /\ procs = Idle
    /\ normArg = <<>>
    /\ normOut = <<>>
    /\ normOut2 = <<>>
    /\ normStage = 0

\* ingest_triples_and_blocks and its route, with the outcome `out`.
IngestWith(op, request, failed, out) ==
    /\ calls < MaxRetryCalls
    /\ graph' = out.g
    /\ blocksTbl' = out.tbl
    /\ resp' = out.resp
    /\ calls' = calls + 1
    /\ last' = [op |-> op, arg |-> request, failed |-> failed]
    /\ rep' = (op = "retry")
    /\ UNCHANGED <<uuids, procs, normArg, normOut, normOut2, normStage>>

\* A first call, nothing failing.
SeedIngest(request) ==
    /\ calls = 0
    /\ \E out \in {IngestOutcome(graph, blocksTbl, request, calls + 1, {},
                                 NoFailures(request.triples), "none")} :
          IngestWith("seed", request, FALSE, out)
    /\ UNCHANGED hist

\* A call in which `failure` happens.
IngestFailed(request, failure) ==
    /\ last.op # "ingest"
    /\ \E out \in {IngestOutcome(graph, blocksTbl, request, calls + 1, failure.bad,
                                 failure.failAt, failure.fatal)} :
          IngestWith("ingest", request, failure # NoneFailing(request), out)
    /\ hist' = [g |-> graph, tbl |-> blocksTbl]

\* The caller sends the request of the last call again; nothing fails.
Retry ==
    /\ last.op = "ingest"
    /\ \E out \in {IngestOutcome(graph, blocksTbl, last.arg, calls + 1, {},
                                 NoFailures(last.arg.triples), "none")} :
          IngestWith("retry", last.arg, last.failed, out)
    /\ UNCHANGED hist

NextRetry ==
    \/ \E request \in SeedRequests : SeedIngest(request)
    \/ \E request \in RetryRequests :
          \E failure \in Failures(request) : IngestFailed(request, failure)
    \/ Retry

SpecRetry == InitRetry /\ [][NextRetry]_vars

\* C22: when ingest(R), R carrying a document_id, suffered per-block or
\* per-triple failures or failed outright, and R was then ingested again with
\* no failure, the contents of the graph and of the block table are those a
\* single failure-free ingest(R) gives from the stores as they were before
\* the failed call.
C22_BlindRetryIsSafe ==
    (last.op = "retry" /\ last.failed) =>
        \E alone \in {AfterIngestAlone(hist.g, hist.tbl, last.arg, calls)} :
            Contents(graph, blocksTbl) = Contents(alone.g, alone.tbl)

\* A relationship edge without the wording it was created with.
RelKey(g, r) ==
    [subject |-> NameOf(g, r.src), type |-> r.type, object |-> NameOf(g, r.dst),
     document_id |-> r.document_id]

RelKeys(g) ==
    {[shape |-> RelKey(g, r),
      n |-> Cardinality({x \in g.rels : RelKey(g, x) = RelKey(g, r)})] : r \in g.rels}

\* The predicate and source of edge r are those of edge x of graph h between
\* the same names with the same type, or those of a triple of the list that
\* gives that subject, type and object.
WordingFrom(g, r, h, triples) ==
    \/ \E x \in h.rels : RelShape(h, x) = RelShape(g, r)
    \/ \E j \in 1..Len(triples) :
          /\ triples[j].subject = NameOf(g, r.src)
          /\ triples[j].object = NameOf(g, r.dst)
          /\ SanitizeRelationshipType(triples[j].predicate) = r.type
          /\ triples[j].predicate = r.predicate
          /\ triples[j].source = r.source

\* C22 (amended): after a failed ingest(R) and a failure-free retry of R the
\* graph and the block table have the contents a single failure-free
\* ingest(R) gives, except for the predicate and source of an edge that
\* several triples of R assert: these are those of the single ingest or
\* those of another triple of R with the same subject, type token and object.
C22_BlindRetryKeepsAllButWording ==
    (last.op = "retry" /\ last.failed) =>
        \E alone \in {AfterIngestAlone(hist.g, hist.tbl, last.arg, calls)} :
            /\ DocContents(graph) = DocContents(alone.g)
            /\ EntContents(graph) = EntContents(alone.g)
            /\ CntContents(graph) = CntContents(alone.g)
            /\ RowContents(blocksTbl) = RowContents(alone.tbl)
            /\ RelKeys(graph) = RelKeys(alone.g)
            /\ \A r \in graph.rels :
                  WordingFrom(graph, r, alone.g, last.arg.triples)

\* A retry after a call whose first triple failed, the second, of another
\* wording and the same type token, having created the edge.
C22_Witness ==
    /\ last.op = "retry" /\ last.failed
    /\ last.arg.triples[1].predicate = PredSpaced
    /\ \E r \in graph.rels :
          /\ r.predicate = PredUnderscored
          /\ r.document_id = last.arg.document_id
    /\ \A j \in 1..Len(last.arg.triples) :
          TripleInGraph(graph, last.arg.triples[j], last.arg.document_id)

-----------------------------------------------------------------------------
(***************************************************************************)
(* The order of the triples of a request (specification SpecOrder): calls  *)
(* run one at a time, nothing failing, each request carrying two different *)
(* triples.                                                                *)
(***************************************************************************)

\* Calls made in one behaviour of ordered requests.
MaxOrderCalls == 3

OrderRequests ==
    {r \in Requests : Len(r.triples) > 1 /\ r.triples[1] # r.triples[Len(r.triples)]}

\* Every order of the elements of a list.
Orderings(seq) ==
    {[i \in 1..Len(seq) |-> seq[f[i]]] :
        f \in {h \in [1..Len(seq) -> 1..Len(seq)] :
                 \A i \in 1..Len(seq), j \in 1..Len(seq) : h[i] = h[j] => i = j}}

InitOrder == Init

\* ingest_triples_and_blocks (and its route), no statement failing.
IngestOrdered(request) ==
    /\ calls < MaxOrderCalls
    /\ \E sb \in {StoreBlocks(blocksTbl, request.blocks, request.document_id,
                              calls + 1, {})},
          it \in {IngestTriples(graph, request.triples, request.document_id,
                                request.metadata, calls + 1,
                                NoFailures(request.triples))} :
          /\ blocksTbl' = sb.tbl
          /\ graph' = it.g
          /\ resp' = [op |-> "ingest", document_id |-> request.document_id,
                      blocks_stored |-> sb.blocks_stored,
                      triples_processed |-> Len(request.triples),
                      nodes_created |-> it.nodes_created,
                      relationships_created |-> it.relationships_created]
    /\ calls' = calls + 1
    /\ rep' = FALSE
    /\ last' = [op |-> "ingest", arg |-> request]
    /\ UNCHANGED <<uuids, hist, procs, normArg, normOut, normOut2, normStage>>

\* delete_document (and its route).
DeleteOrdered(document_id) ==
    /\ calls < MaxOrderCalls
    /\ graph' = DeleteDocumentCascade(graph, document_id)
    /\ blocksTbl' = DeleteBlocks(blocksTbl, document_id)
    /\ calls' = calls + 1
    /\ resp' = [op |-> "delete", ok |-> TRUE]
    /\ rep' = FALSE
    /\ last' = [op |-> "delete", arg |-> document_id]
    /\ UNCHANGED <<uuids, hist, procs, normArg, normOut, normOut2, normStage>>

NextOrder ==
    \/ \E request \in OrderRequests : IngestOrdered(request)
    \/ \E document_id \in DocIds : DeleteOrdered(document_id)

SpecOrder == InitOrder /\ [][NextOrder]_vars

\* The graph the call of this step would have left had its triples come in
\* the order `triples`.
GraphInOrder(triples) ==
    IngestTriples(graph, triples, last'.arg.document_id, last'.arg.metadata,
                  calls', NoFailures(triples)).g

\* A relationship edge without its document_id.
RelButDocument(g, r) ==
    [subject |-> NameOf(g, r.src), type |-> r.type, object |-> NameOf(g, r.dst),
     predicate |-> r.predicate, source |-> r.source]

\* A relationship edge by the names at its ends and its type.
RelEnds(g, r) ==
    [subject |-> NameOf(g, r.src), type |-> r.type, object |-> NameOf(g, r.dst)]

\* The edge is shared with a document other than document_id: that document
\* contains both its ends.
SharedWithOther(g, r, document_id) ==
    \E d \in g.docs : /\ d.id # document_id
                      /\ \E c \in g.cnts : c.doc = d.nid /\ c.ent = r.src
                      /\ \E c \in g.cnts : c.doc = d.nid /\ c.ent = r.dst

\* Two triples of the list give the subject, type and object of edge r.
AssertedTwice(g, r, triples) ==
    \E i \in 1..Len(triples), j \in 1..Len(triples) :
        /\ i # j
        /\ \A k \in {i, j} :
              /\ triples[k].subject = NameOf(g, r.src)
              /\ triples[k].object = NameOf(g, r.dst)
              /\ SanitizeRelationshipType(triples[k].predicate) = r.type

\* C23: whatever the order of the triples of an ingest request, the same
\* Entity nodes, relationship edges and containment edges result with the
\* same attributes, only the document_id of an edge shared with another
\* document possibly differing.
C23_OrderOnlyAffectsDocumentId ==
    [][IsCall("ingest") =>
          \A triples \in Orderings(last'.arg.triples) :
             \E other \in {GraphInOrder(triples)} :
                /\ EntContents(graph') = EntContents(other)
                /\ CntContents(graph') = CntContents(other)
                /\ {RelButDocument(graph', r) : r \in graph'.rels}
                      = {RelButDocument(other, r) : r \in other.rels}
                /\ \A r \in graph'.rels :
                      \/ SharedWithOther(graph', r, last'.arg.document_id)
                      \/ \E x \in other.rels : RelShape(other, x) = RelShape(graph', r)]_vars

\* C23 (amended): whatever the order of the triples of an ingest request, the
\* same Entity nodes, relationship edges and containment edges result with
\* the same attributes, only the predicate and source of an edge that two
\* triples of the request assert, and the document_id of an edge shared with
\* another document, possibly differing.
C23_OrderOnlyAffectsWordingAndDocumentId ==
    [][IsCall("ingest") =>
          \A triples \in Orderings(last'.arg.triples) :
             \E other \in {GraphInOrder(triples)} :
                /\ EntContents(graph') = EntContents(other)
                /\ CntContents(graph') = CntContents(other)
                /\ {RelEnds(graph', r) : r \in graph'.rels}
                      = {RelEnds(other, r) : r \in other.rels}
                /\ Cardinality(graph'.rels) = Cardinality(other.rels)
                /\ \A r \in graph'.rels :
                      \E x \in other.rels :
                         /\ RelEnds(other, x) = RelEnds(graph', r)
                         /\ \/ x.document_id = r.document_id
                            \/ SharedWithOther(graph', r, last'.arg.document_id)
                         /\ \/ x.predicate = r.predicate /\ x.source = r.source
                            \/ AssertedTwice(graph', r, last'.arg.triples)]_vars

\* Paris-France ingested in the wording "a b" then in the wording "a_b": the
\* edge shows the first, and would show the second in the other order.
C23_Witness ==
    /\ last.op = "ingest"
    /\ last.arg.triples[1].predicate = PredSpaced
    /\ last.arg.triples[Len(last.arg.triples)].predicate = PredUnderscored
    /\ last.arg.triples[1].subject = last.arg.triples[Len(last.arg.triples)].subject
    /\ \E r \in graph.rels : r.predicate = PredSpaced /\ NameOf(graph, r.src) = "Paris"
    /\ Cardinality(graph.rels) = 1

-----------------------------------------------------------------------------
(***************************************************************************)
(* The statistics and the graph an ingest with failing statements leaves.  *)
(***************************************************************************)

\* The Document and Entity nodes, and the relationship edges, a step created.
NodesCreatedByStep == NodeIds(graph') \ NodeIds(graph)
RelationshipsCreatedByStep == {r.eid : r \in graph'.rels} \ {r.eid : r \in graph.rels}

\* C24: in every ingest call that returns its response, also one in which a
\* statement of some triple raised, nodes_created is at least the number of
\* Document and Entity nodes the call created and relationships_created at
\* least the number of relationship edges it created.
C24_CountersAreUpperBounds ==
    [][(IsCall("ingest") /\ resp'.status = 201) =>
          /\ resp'.nodes_created >= Cardinality(NodesCreatedByStep)
          /\ resp'.relationships_created >= Cardinality(RelationshipsCreatedByStep)]_vars

\* C25: every Entity node has a containment edge from an existing Document
\* node, also after an ingest call in which statements of a triple raised
\* and the triple was skipped.
C25_NoUncontainedEntity ==
    \A e \in graph.ents : \E d \in graph.docs : Contains(graph, d, e)

-----------------------------------------------------------------------------
(***************************************************************************)
(* A deletion racing an ingest (specification SpecRace): a first call runs *)
(* alone, then calls are served by two workers whose store statements      *)
(* interleave as in SpecConc.  hist tells whether the two calls in flight  *)
(* are a deletion of one document and an ingest, under another document,   *)
(* of a triple naming an entity that only the deleted document contained   *)
(* when the later of the two began.                                        *)
(***************************************************************************)

\* Calls made in one behaviour with a race.
MaxRaceCalls == 3

\* Requests of one triple and no block.
RaceRequests ==
    {[document_id |-> r.document_id, metadata |-> r.metadata, blocks |-> <<>>,
      triples |-> r.triples] : r \in ConcRequests}

NoRace == [race |-> FALSE]

InitRace ==
    /\ graph = EmptyGraph
    /\ blocksTbl = {}
    /\ calls = 0
    /\ uuids = 0
    /\ last = [op |-> "none", arg |-> None]
    /\ rep = FALSE
    /\ resp = [op |-> "none"]
    /\ hist = NoRace
    /\ procs = [p \in Procs |-> IdleProc]
    /\ normArg = <<>>
    /\ normOut = <<>>
    /\ normOut2 = <<>>
    /\ normStage = 0

\* Only document_id contains an entity of that name.
SolelyContained(g, name, document_id) ==
    \E e \in EntitiesNamed(g, name) :
        /\ \E d \in DocsWithId(g, document_id) : Contains(g, d, e)
        /\ ~ \E other \in g.docs : other.id # document_id /\ Contains(g, other, e)

\* A deletion of `deleted` and an ingest of `request` are in flight together.
RaceOf(deleted, request) ==
    [race |-> /\ request.document_id # deleted
              /\ \E i \in 1..Len(request.triples) :
                    \/ SolelyContained(graph, request.triples[i].subject, deleted)
                    \/ SolelyContained(graph, request.triples[i].object, deleted)]

\* The call that began the behaviour has returned before another begins.
FirstRanAlone == calls = 1 => \A q \in Procs : procs[q].pc = "idle"

\* ingest_triples_and_blocks is entered.
RaceStartIngest(p, request) ==
    /\ FirstFree(p)
    /\ calls < MaxRaceCalls
    /\ FirstRanAlone
    /\ calls' = calls + 1
    /\ procs' = [procs EXCEPT ![p] =
          [IdleProc EXCEPT !.op = "ingest", !.arg = request,
                           !.document_id = request.document_id, !.i = 1,
                           !.pc = IF request.blocks = <<>> THEN "document" ELSE "block"]]
    /\ hist' = IF \E q \in Procs : procs[q].op = "delete"
               THEN RaceOf(procs[CHOOSE q \in Procs : procs[q].op = "delete"].document_id,
                           request)
               ELSE NoRace
    /\ UNCHANGED <<graph, blocksTbl, last, rep, resp, uuids,
                   normArg, normOut, normOut2, normStage>>

\* delete_document is entered.
RaceStartDelete(p, document_id) ==
    /\ FirstFree(p)
    /\ calls < MaxRaceCalls
    /\ FirstRanAlone
    /\ calls' = calls + 1
    /\ procs' = [procs EXCEPT ![p] =
          [IdleProc EXCEPT !.op = "delete", !.arg = document_id,
                           !.document_id = document_id, !.pc = "cascade"]]
    /\ hist' = IF \E q \in Procs : procs[q].op = "ingest"
               THEN RaceOf(document_id,
                           procs[CHOOSE q \in Procs : procs[q].op = "ingest"].arg)
               ELSE NoRace
    /\ UNCHANGED <<graph, blocksTbl, last, rep, resp, uuids,
                   normArg, normOut, normOut2, normStage>>

NextRace ==
    \E p \in Procs :
        \/ \E request \in RaceRequests : RaceStartIngest(p, request)
        \/ DocumentMatch(p)
        \/ DocumentCreate(p)
        \/ SubjectMatch(p)
        \/ SubjectCreate(p)
        \/ ObjectMatch(p)
        \/ ObjectCreate(p)
        \/ RelationshipStatement(p)
        \/ ContainsSubjectStatement(p)
        \/ ContainsObjectStatement(p)
        \/ ReturnIngest(p)
        \/ \E document_id \in DocIds : RaceStartDelete(p, document_id)
        \/ CascadeStatement(p)
        \/ DeleteBlocksStatement(p)
        \/ ReturnDelete(p)

SpecRace == InitRace /\ [][NextRace]_vars

\* The deletion and the ingest of a race have both run their last statement.
RaceFinished ==
    /\ hist.race
    /\ \A p \in Procs : procs[p].pc = "return"
    /\ \E p \in Procs : procs[p].op = "ingest"
    /\ \E p \in Procs : procs[p].op = "delete"

\* C26: when DeleteDocument(D1) ran concurrently with an ingest under D2 of a
\* triple naming an entity that only D1 contained, then, whatever the
\* interleaving of their statements, once both have run their last statement
\* the subject and object entities and the relationship edge of D2's triple
\* exist and D2 contains both entities.
C26_RacingIngestKeepsItsTriple ==
    RaceFinished =>
        \A p \in Procs :
            procs[p].op = "ingest" =>
                \A j \in 1..Len(procs[p].arg.triples) :
                    TripleInGraph(graph, procs[p].arg.triples[j], procs[p].document_id)

-----------------------------------------------------------------------------
(***************************************************************************)
(* The blocks of a document, and what a deletion leaves.                   *)
(***************************************************************************)

\* json.loads(row["metadata"]) if row["metadata"] else {}
JsonLoads(metadata) == IF metadata = "{}" THEN None ELSE metadata

\* GraphIngestionService.get_blocks_by_document:
\* SELECT id, raw_text, terms, metadata, created_at, updated_at
\* FROM document_blocks WHERE document_id = $1 ORDER BY id
\* The rows listed, as the set of the dictionaries returned.
GetBlocksByDocument(tbl, document_id) ==
    {[id |-> r.id, raw_text |-> r.raw_text, terms |-> r.terms,
      metadata |-> JsonLoads(r.metadata), created_at |-> r.created_at,
      updated_at |-> r.updated_at] : r \in {x \in tbl : x.document_id = document_id}}

\* C27: every block an ingest call counts in blocks_stored is among the
\* blocks listed for the document of the response, also when a row of that
\* block id existed under another document.
C27_StoredBlocksListedUnderDocument ==
    (last.op = "ingest" /\ resp.blocks_stored = Len(last.arg.blocks)) =>
        \A i \in 1..Len(last.arg.blocks) :
            \E b \in GetBlocksByDocument(blocksTbl, resp.document_id) :
                b.id = last.arg.blocks[i].id

\* C28: for every Document node that exists, also one that contains no
\* entity (created by an ingest with an empty triple list), GetDocumentGraph
\* returns a result that holds the document, with an empty entity list when
\* it contains none, and not the not-found outcome.
C28_ExistingDocumentIsFound ==
    (last.op = "get_graph" /\ DocsWithId(graph, last.arg.document_id) # {}) =>
        /\ resp.status # 404
        /\ resp.document.id = last.arg.document_id
        /\ (\A e \in graph.ents : ~ Contains(graph, resp.document, e))
              => resp.entities = {}

C30_NothingAttributedRemains ==
    last.op = "delete" =>
        /\ GetBlocksByDocument(blocksTbl, last.arg) = {}
        /\ \A r \in graph.rels : r.document_id # last.arg

=============================================================================
